---- MODULE Spec2Model ----
(***************************************************************************)
(* Model of the itvalleyorion agent SDK: the Supervisor's orchestration    *)
(* loop (agents/supervisorsdk.py), tool execution and the tail of run      *)
(* (structured-output extraction of agents/analystsdk.py).                 *)
(*                                                                         *)
(* Python values are tagged records, [type, value], so that values of      *)
(* different Python types can be compared.  Python dicts that the code     *)
(* tests with `in` / .get (responses, payloads, tool calls) are TLA+       *)
(* functions whose DOMAIN is the set of keys present.  Python strings are  *)
(* TLA+ strings; an f-string is a concatenation.                           *)
(***************************************************************************)
EXTENDS Integers, Sequences, FiniteSets, TLC

VARIABLES
    tools,                  \* self.tools: the Supervisor's tool definitions
    supervised_agents,      \* self.supervised_agents
    output_type,            \* self.output_type
    require_output_type,    \* self.require_output_type
    pc,                     \* position of the one Supervisor.run in flight
    payload,                \* _call_orion_api: payload (dict)
    result,                 \* _call_orion_api: result (last response json)
    needs_more_processing,  \* _call_orion_api: loop flag
    current_iteration,      \* _call_orion_api: loop counter
    tool_results,           \* _call_orion_api: tool_results being collected
    delegation_results,     \* _call_orion_api: delegation_results being collected
    idx,                    \* position of the running for-loop in its list
    response,               \* run: what _call_orion_api returned
    outcome,                \* what run returned or raised
    call_input,             \* a tool call handed to _execute_tool_call on its own
    call_output,            \* what _execute_tool_call did with call_input
    requests,               \* history: number of requests sent to the backend
    status,                 \* history: what raise_for_status met at the last one
    executed,               \* history: items executed since the last response
    _REGISTERED_TOOLS,      \* analystsdk._REGISTERED_TOOLS: the registry
    suspended               \* another run of the same Supervisor, not running now

vars == <<tools, supervised_agents, output_type, require_output_type, pc,
          payload, result, needs_more_processing, current_iteration,
          tool_results, delegation_results, idx, response, outcome, call_input,
          call_output, requests, status, executed, _REGISTERED_TOOLS,
          suspended>>

config == <<tools, supervised_agents, output_type, require_output_type,
            call_input, call_output, _REGISTERED_TOOLS, suspended>>

-----------------------------------------------------------------------------
(* Bounds of the model.                                                    *)

\* longest tool_calls list a response carries
MaxCalls == 2
\* longest agent_delegations list a response carries
MaxDelegations == 2

-----------------------------------------------------------------------------
(* Python values and dicts.                                                *)

Str(s) == [type |-> "str", value |-> s]
Float(s) == [type |-> "float", value |-> s]
Dict(d) == [type |-> "dict", value |-> d]
PySet(s) == [type |-> "set", value |-> s]
None == [type |-> "NoneType", value |-> "None"]

Has(d, k) == k \in DOMAIN d
Get(d, k, default) == IF k \in DOMAIN d THEN d[k] ELSE default
Put(d, k, v) == (k :> v) @@ d
EmptyDict == [k \in {} |-> None]

Contains(s, sub) ==
    \E i \in 1..(Len(s) - Len(sub) + 1) : SubSeq(s, i, i + Len(sub) - 1) = sub

-----------------------------------------------------------------------------
(* Tools.  A registered tool is the dict that the `tool` decorator stores:  *)
(* its callable, its name and the pydantic model of its parameters, where   *)
(* every declared parameter is a required field.                            *)

\* the callables of teste.py, as the registry holds them
buscar_cotacao ==
    [function |-> "buscar_cotacao", name |-> "buscar_cotacao",
     parameters |-> [ticker |-> "str"]]
dados_economicos ==
    [function |-> "dados_economicos", name |-> "dados_economicos",
     parameters |-> [pais |-> "str"]]

\* the registry once teste.py has been loaded: both functions are decorated
RegisteredByTeste ==
    ("buscar_cotacao" :> buscar_cotacao) @@ ("dados_economicos" :> dados_economicos)

\* function objects: function is the identity of the object; two of them
\* were defined under the same name, and one has a parameter with a default
Functions ==
    {[function |-> "buscar_cotacao", __name__ |-> "buscar_cotacao",
      parameters |-> [ticker |-> "str"], defaults |-> {}],
     [function |-> "buscar_cotacao, defined again", __name__ |-> "buscar_cotacao",
      parameters |-> [ticker |-> "str", bolsa |-> "str"],
      defaults |-> {"bolsa"}],
     [function |-> "dados_economicos", __name__ |-> "dados_economicos",
      parameters |-> [pais |-> "str"], defaults |-> {}]}

\* the first write under a name stays
tool_FirstWins(registry, func, name) ==
    LET Registered(func_name) ==
            IF func_name \in DOMAIN registry THEN registry
            ELSE Put(registry, func_name,
                     [function |-> func.function, name |-> func_name,
                      parameters |-> func.parameters])
    IN  Registered(IF name # "" THEN name ELSE func.__name__)

\* lines 36-61: the registry after tool(func, name=name); every parameter
\* of the signature becomes a required field (line 47), defaults or not
tool(registry, func, name) ==
    LET Registered(func_name) ==
            Put(registry, func_name,
                [function |-> func.function, name |-> func_name,
                 parameters |-> func.parameters])
    IN  Registered(IF name # "" THEN name ELSE func.__name__)

\* What a callable does with validated arguments: user code, so any of
\* returning a serializable value, returning an unserializable one, raising.
CallFunction(function, arg_dict) ==
    IF function = "buscar_cotacao" THEN
        CASE arg_dict.ticker = Str("PETR4") ->
                [kind |-> "return", value |-> Dict([atual |-> Float("45.7")])]
          [] arg_dict.ticker = Str("XXXX") ->
                [kind |-> "raise", message |-> "ticker desconhecido"]
          [] arg_dict.ticker = Str("TODOS") ->
                [kind |-> "return", value |-> PySet({"PETR4", "VALE3"})]
          [] OTHER ->
                [kind |-> "return", value |-> Dict([atual |-> Float("0.0")])]
    ELSE [kind |-> "return", value |-> Dict([inflacao |-> Float("4.2")])]

\* json.dumps of the values the callables return
RECURSIVE json_dumps(_)
json_dumps(v) ==
    CASE v.type = "float" -> [kind |-> "return", value |-> Str(v.value)]
      [] v.type = "str" ->
            [kind |-> "return", value |-> Str("\"" \o v.value \o "\"")]
      [] v.type = "dict" /\ Cardinality(DOMAIN v.value) = 1 ->
            LET k == CHOOSE k \in DOMAIN v.value : TRUE
                inner == json_dumps(v.value[k])
            IN  IF inner.kind = "raise" THEN inner
                ELSE [kind |-> "return",
                      value |-> Str("{\"" \o k \o "\": " \o inner.value.value \o "}")]
      [] v.type = "dict" /\ Cardinality(DOMAIN v.value) = 0 ->
            [kind |-> "return", value |-> Str("{}")]
      [] OTHER ->
            [kind |-> "raise",
             message |-> "Object of type " \o v.type \o " is not JSON serializable"]

\* a parameter the arguments do not give is left to the callable
ValidateArguments_MissingAllowed(tool_info, arguments) ==
    IF arguments.type # "dict" THEN
        [kind |-> "raise",
         message |-> "argument after ** must be a mapping, not " \o arguments.type]
    ELSE [kind |-> "return",
          value |-> [f \in DOMAIN tool_info.parameters \cap DOMAIN arguments.value |->
                        Str(arguments.value[f].value)]]

\* the parameter model built from the arguments, then .dict(): pydantic validation;
\* a str field takes a str, coerces a number, and rejects anything else;
\* undeclared keys are dropped.
ValidateArguments(tool_info, arguments) ==
    IF arguments.type # "dict" THEN
        [kind |-> "raise",
         message |-> "argument after ** must be a mapping, not " \o arguments.type]
    ELSE LET given == arguments.value
             fields == DOMAIN tool_info.parameters
             missing == {f \in fields : f \notin DOMAIN given}
             malformed == {f \in fields \ missing :
                             given[f].type \notin {"str", "float"}}
         IN  IF missing # {} THEN
                 [kind |-> "raise",
                  message |-> "1 validation error for " \o tool_info.name
                              \o "_params: field required"]
             ELSE IF malformed # {} THEN
                 [kind |-> "raise",
                  message |-> "1 validation error for " \o tool_info.name
                              \o "_params: str type expected"]
             ELSE [kind |-> "return",
                   value |-> [f \in fields |-> Str(given[f].value)]]

\* an unknown name falls back to the first tool of the list
FindTool_FirstByDefault(tool_list, tool_name) ==
    IF \E i \in 1..Len(tool_list) : Str(tool_list[i].name) = tool_name
    THEN CHOOSE i \in 1..Len(tool_list) :
            /\ Str(tool_list[i].name) = tool_name
            /\ \A j \in 1..(i - 1) : Str(tool_list[j].name) # tool_name
    ELSE IF Len(tool_list) > 0 THEN 1 ELSE 0

\* the first tool of the list with that name (0: none)
FindTool(tool_list, tool_name) ==
    IF \E i \in 1..Len(tool_list) : Str(tool_list[i].name) = tool_name
    THEN CHOOSE i \in 1..Len(tool_list) :
            /\ Str(tool_list[i].name) = tool_name
            /\ \A j \in 1..(i - 1) : Str(tool_list[j].name) # tool_name
    ELSE 0

\* str(x) inside an f-string
Format(v) == v.value

ToolNotFound(tool_name) ==
    Dict([error |-> Str("Ferramenta '" \o Format(tool_name) \o "' não encontrada")])

\* the error text reduced to "<tool name>: <message>"
ToolExecutionError_NameColonMessage(tool_name, message) ==
    Dict([error |-> Str(Format(tool_name) \o ": " \o message)])

ToolExecutionError(tool_name, message) ==
    Dict([error |-> Str("Erro ao executar ferramenta '" \o Format(tool_name)
                        \o "': " \o message)])

\* try: <body> except Exception as e: return <handler>(str(e))
\* an outcome is [kind |-> "return", value] or [kind |-> "raise", message]
Return(v) == [kind |-> "return", value |-> v]

\* lines 302-315: the body of the try block, with the callables it invoked
TryToolCall(tool_info, arguments) ==
    LET validated_args == ValidateArguments(tool_info, arguments)
    IN  IF validated_args.kind = "raise"
        THEN [outcome |-> validated_args, invoked |-> <<>>]
        ELSE LET call == [function |-> tool_info.function,
                          arguments |-> validated_args.value]
                 returned == CallFunction(call.function, call.arguments)
             IN  [outcome |-> IF returned.kind = "raise" THEN returned
                              ELSE json_dumps(returned.value),
                  invoked |-> <<call>>]

\* a name that is not in the list is looked up in the registry
ToolExecution_FromRegistry(tool_list, tool_call) ==
    LET tool_name == Get(tool_call, "name", None)
        arguments == Get(tool_call, "arguments", Dict(EmptyDict))
        i == FindTool(tool_list, tool_name)
        Try(tool_info) ==
            LET body == TryToolCall(tool_info, arguments)
            IN  [outcome |-> IF body.outcome.kind = "raise"
                             THEN Return(ToolExecutionError(tool_name,
                                                            body.outcome.message))
                             ELSE body.outcome,
                 invoked |-> body.invoked]
    IN  IF i # 0 THEN Try(tool_list[i])
        ELSE IF \E n \in DOMAIN _REGISTERED_TOOLS : Str(n) = tool_name
        THEN Try(_REGISTERED_TOOLS[CHOOSE n \in DOMAIN _REGISTERED_TOOLS :
                                      Str(n) = tool_name])
        ELSE [outcome |-> Return(ToolNotFound(tool_name)), invoked |-> <<>>]

\* lines 287-317: _execute_tool_call with the callables it invoked; outcome
\* is what it returns, or the exception that leaves it
ToolExecution(tool_list, tool_call) ==
    LET tool_name == Get(tool_call, "name", None)
        arguments == Get(tool_call, "arguments", Dict(EmptyDict))
        i == FindTool(tool_list, tool_name)
    IN  IF i = 0
        THEN [outcome |-> Return(ToolNotFound(tool_name)), invoked |-> <<>>]
        ELSE LET body == TryToolCall(tool_list[i], arguments)
             IN  [outcome |-> IF body.outcome.kind = "raise"
                              THEN Return(ToolExecutionError(tool_name,
                                                             body.outcome.message))
                              ELSE body.outcome,
                  invoked |-> body.invoked]

\* the body run outside any try block: its exception leaves the method
_execute_tool_call_Unguarded(tool_list, tool_call) ==
    LET i == FindTool(tool_list, Get(tool_call, "name", None))
    IN  IF i = 0 THEN Return(ToolNotFound(Get(tool_call, "name", None)))
        ELSE TryToolCall(tool_list[i],
                         Get(tool_call, "arguments", Dict(EmptyDict))).outcome

_execute_tool_call(tool_list, tool_call) == ToolExecution(tool_list, tool_call).outcome

-----------------------------------------------------------------------------
(* Supervised agents and delegation.                                       *)

PyInt(n) == [type |-> "int", value |-> ToString(n)]

\* the agents of teste.py; id is Python's id(agent)
redatorSimples == [id |-> 101, name |-> "Redator Simples", type |-> "operator"]
analystData == [id |-> 102, name |-> "Analista de Dados", type |-> "analyst"]

\* What awaiting agent.run(input) can produce: an AgentResult, a pydantic
\* instance (Analyst with an output_type) or an exception.
AgentRunOutcomes(agent) ==
    {[kind |-> "AgentResult", content |-> Str("texto de " \o agent.name)],
     [kind |-> "raise", message |-> "500 Server Error"]}
    \cup (IF agent.type = "analyst"
          THEN {[kind |-> "BaseModel", dict |-> Dict([tendencia |-> Str("alta")])]}
          ELSE {})

\* the first supervised agent, whatever agent_id is (0: no agents)
FindAgent_First(agents, agent_id) == IF Len(agents) > 0 THEN 1 ELSE 0

\* the first supervised agent whose id() is agent_id (0: none)
FindAgent(agents, agent_id) ==
    IF \E i \in 1..Len(agents) : PyInt(agents[i].id) = agent_id
    THEN CHOOSE i \in 1..Len(agents) :
            /\ PyInt(agents[i].id) = agent_id
            /\ \A j \in 1..(i - 1) : PyInt(agents[j].id) # agent_id
    ELSE 0

\* the error text without the id
AgentNotFound_NoId(agent_id) == Str("Erro: Agente não encontrado")

AgentNotFound(agent_id) ==
    Str("Erro: Agente com ID " \o Format(agent_id) \o " não encontrado")

AgentExecutionError(agent, message) ==
    Str("Erro ao executar o agente " \o agent.name \o ": " \o message)

\* every result of a run is taken for its content
ConvertRunResult_ContentOnly(run) ==
    CASE run.kind = "AgentResult" -> Return(run.content)
      [] OTHER -> Return(Str("object"))

\* lines 338-344: the conversion of what agent.run returned
ConvertRunResult(run) ==
    CASE run.kind = "AgentResult" -> Return(run.content)
      [] run.kind = "BaseModel" -> json_dumps(run.dict)
      [] OTHER -> Return(Str("object"))

\* lines 334-346: what _execute_agent_delegation does once agent.run ended
DelegationResult(agent, run) ==
    LET body == IF run.kind = "raise" THEN run ELSE ConvertRunResult(run)
    IN  IF body.kind = "raise"
        THEN Return(AgentExecutionError(agent, body.message))
        ELSE body

-----------------------------------------------------------------------------
(* The backend: what a round-trip can answer.                              *)

\* the tool calls and delegations a response lists, in the order it lists them
ToolCalls ==
    <<[id |-> "call_1", name |-> Str("buscar_cotacao"),
       arguments |-> Dict([ticker |-> Str("XXXX")])],
      [id |-> "call_2", name |-> Str("buscar_cotacao"),
       arguments |-> Dict([ticker |-> Str("PETR4")])],
      [id |-> "call_3", name |-> Str("inexistente"), arguments |-> None],
      [id |-> "call_4", name |-> Str("dados_economicos"),
       arguments |-> Dict([pais |-> Str("BR")])]>>

Delegations ==
    <<[id |-> "del_1", agent_id |-> PyInt(999), input |-> Str("resuma")],
      [id |-> "del_2", agent_id |-> PyInt(102), input |-> Str("analise o setor")],
      [id |-> "del_3", agent_id |-> PyInt(101), input |-> Str("escreva")],
      [id |-> "del_4", agent_id |-> PyInt(102), input |-> Str("revise")]>>

Prefixes(list, n) == {SubSeq(list, 1, k) : k \in 0..(IF n < Len(list) THEN n ELSE Len(list))}

\* an absent key is the empty set, a present one the singleton of its list
Optional(lists) == {{}} \cup {{l} : l \in lists}

\* a response json: content, and optionally tool_calls and agent_delegations
Response(content, calls, delegations) ==
    LET base == [content |-> content]
        with_calls == IF calls = {} THEN base
                      ELSE Put(base, "tool_calls", CHOOSE c \in calls : TRUE)
    IN  IF delegations = {} THEN with_calls
        ELSE Put(with_calls, "agent_delegations", CHOOSE d \in delegations : TRUE)

ResponsesOf(contents, call_lists, delegation_lists) ==
    {Response(c, t, d) : c \in contents, t \in Optional(call_lists),
                         d \in Optional(delegation_lists)}

Responses ==
    ResponsesOf({Str("sem dados")}, Prefixes(ToolCalls, MaxCalls),
                Prefixes(Delegations, MaxDelegations))

\* the answers of a backend that always lists both tool calls and delegations
BothResponses ==
    {r \in Responses : Has(r, "tool_calls") /\ Has(r, "agent_delegations")}

-----------------------------------------------------------------------------
(* Text: Python's str methods, json.loads and pydantic's validation.       *)

PyList(l) == [type |-> "list", value |-> l]
Bool(b) == [type |-> "bool", value |-> IF b THEN "True" ELSE "False"]
IntLiteral(s) == [type |-> "int", value |-> s]

\* the character at a 1-based position, "" outside the text
Char(s, i) == IF i >= 1 /\ i <= Len(s) THEN SubSeq(s, i, i) ELSE ""

Whitespace == {" ", "\t", "\n", "\r"}
Digits == {"0", "1", "2", "3", "4", "5", "6", "7", "8", "9"}

\* the first position from i on whose character is not in set
RECURSIVE SkipWhile(_, _, _)
SkipWhile(s, i, set) ==
    IF Char(s, i) \in set THEN SkipWhile(s, i + 1, set) ELSE i

StartsWithAt(s, sub, i) ==
    /\ i >= 1
    /\ i + Len(sub) - 1 <= Len(s)
    /\ SubSeq(s, i, i + Len(sub) - 1) = sub

\* str.find and str.rfind, 1-based: 0 when sub does not occur
RECURSIVE Find(_, _, _)
Find(s, sub, i) ==
    IF i + Len(sub) - 1 > Len(s) THEN 0
    ELSE IF StartsWithAt(s, sub, i) THEN i
    ELSE Find(s, sub, i + 1)

RECURSIVE RFind(_, _, _)
RFind(s, sub, i) ==
    IF i < 1 THEN 0
    ELSE IF StartsWithAt(s, sub, i) THEN i
    ELSE RFind(s, sub, i - 1)

\* str.strip(): without the leading and trailing characters of set
RECURSIVE StripRight(_, _)
StripRight(s, set) ==
    IF Char(s, Len(s)) \in set THEN StripRight(SubSeq(s, 1, Len(s) - 1), set)
    ELSE s

Strip(s, set) ==
    LET r == StripRight(s, set)
    IN  SubSeq(r, SkipWhile(r, 1, set), Len(r))

\* str.split(sep)
RECURSIVE Split(_, _)
Split(s, sep) ==
    LET i == Find(s, sep, 1)
    IN  IF i = 0 THEN <<Str(s)>>
        ELSE <<Str(SubSeq(s, 1, i - 1))>>
             \o Split(SubSeq(s, i + Len(sep), Len(s)), sep)

UpperCase ==
    <<"A", "B", "C", "D", "E", "F", "G", "H", "I", "J", "K", "L", "M",
      "N", "O", "P", "Q", "R", "S", "T", "U", "V", "W", "X", "Y", "Z">>
LowerCase ==
    <<"a", "b", "c", "d", "e", "f", "g", "h", "i", "j", "k", "l", "m",
      "n", "o", "p", "q", "r", "s", "t", "u", "v", "w", "x", "y", "z">>

LowerOf ==
    [c \in {UpperCase[k] : k \in 1..26} |->
        LowerCase[CHOOSE k \in 1..26 : UpperCase[k] = c]]
UpperOf ==
    [c \in {LowerCase[k] : k \in 1..26} |->
        UpperCase[CHOOSE k \in 1..26 : LowerCase[k] = c]]

\* a character mapped by a table, itself when the table does not have it
Translate(table, c) == IF c \in DOMAIN table THEN table[c] ELSE c

LowerChar(c) == Translate(LowerOf, c)
UpperChar(c) == Translate(UpperOf, c)

\* str.lower()
RECURSIVE Lower(_)
Lower(s) ==
    IF s = "" THEN ""
    ELSE LowerChar(Char(s, 1)) \o Lower(SubSeq(s, 2, Len(s)))

IsLetter(c) == LowerChar(c) # c \/ UpperChar(c) # c

\* str.title(): a letter after a non-letter in upper case, the others lower
RECURSIVE TitleFrom(_, _)
TitleFrom(s, i) ==
    IF i > Len(s) THEN ""
    ELSE Translate(IF IsLetter(Char(s, i - 1)) THEN LowerOf ELSE UpperOf,
                   Char(s, i))
         \o TitleFrom(s, i + 1)

Title(s) == TitleFrom(s, 1)

\* what int(s) and float(s) accept, exponents and inf/nan left out
Unsigned(t) == IF Char(t, 1) \in {"-", "+"} THEN SubSeq(t, 2, Len(t)) ELSE t

AllDigits(t) == t # "" /\ SkipWhile(t, 1, Digits) = Len(t) + 1

\* digits with at most one point among them, one digit at least
IsDecimal(t) ==
    LET Point(dot) ==
            IF Char(t, dot) = "."
            THEN Len(t) > 1 /\ SkipWhile(t, dot + 1, Digits) = Len(t) + 1
            ELSE Len(t) > 0 /\ dot = Len(t) + 1
    IN  Point(SkipWhile(t, 1, Digits))

IsIntLiteral(s) == AllDigits(Unsigned(Strip(s, Whitespace)))

IsFloatLiteral(s) == IsDecimal(Unsigned(Strip(s, Whitespace)))

\* float(s) of a literal: an integer literal gets its ".0"
WithPoint(t) == IF Find(t, ".", 1) = 0 THEN t \o ".0" ELSE t

ToFloat(s) == Float(WithPoint(Strip(s, Whitespace)))

\* json.loads: the scanner's result at a position of the text
Failed == [ok |-> FALSE]
Parsed(v, next) == [ok |-> TRUE, value |-> v, next |-> next]

JsonString(s, i) ==
    LET Closed(j) ==
            IF Char(s, i) # "\"" \/ j = 0 THEN Failed
            ELSE IF \E c \in {"\n", "\t", "\r"} :
                       Find(SubSeq(s, i + 1, j - 1), c, 1) # 0
            THEN Failed
            ELSE Parsed(Str(SubSeq(s, i + 1, j - 1)), j + 1)
    IN  Closed(Find(s, "\"", i + 1))

JsonNumber(s, i) ==
    LET Fraction(int_end, frac_end) ==
            IF frac_end > int_end + 1
            THEN Parsed(Float(SubSeq(s, i, frac_end - 1)), frac_end)
            ELSE Parsed(IntLiteral(SubSeq(s, i, int_end - 1)), int_end)
        Integer(start, int_end) ==
            IF int_end = start THEN Failed
            ELSE Fraction(int_end,
                          IF Char(s, int_end) = "."
                          THEN SkipWhile(s, int_end + 1, Digits) ELSE int_end)
        Sign(start) ==
            Integer(start,
                    IF Char(s, start) = "0" THEN start + 1
                    ELSE SkipWhile(s, start, Digits))
    IN  Sign(IF Char(s, i) = "-" THEN i + 1 ELSE i)

RECURSIVE JsonValue(_, _), JsonElements(_, _, _), JsonMembers(_, _, _)

JsonValue(s, i) ==
    LET Begins(c, j) ==
            CASE c = "{" -> IF Char(s, j) = "}" THEN Parsed(Dict(EmptyDict), j + 1)
                            ELSE JsonMembers(s, j, EmptyDict)
              [] c = "[" -> IF Char(s, j) = "]" THEN Parsed(PyList(<<>>), j + 1)
                            ELSE JsonElements(s, j, <<>>)
              [] c = "\"" -> JsonString(s, i)
              [] c = "-" \/ c \in Digits -> JsonNumber(s, i)
              [] c = "t" /\ StartsWithAt(s, "true", i) -> Parsed(Bool(TRUE), i + 4)
              [] c = "f" /\ StartsWithAt(s, "false", i) -> Parsed(Bool(FALSE), i + 5)
              [] c = "n" /\ StartsWithAt(s, "null", i) -> Parsed(None, i + 4)
              [] OTHER -> Failed
    IN  Begins(Char(s, i), SkipWhile(s, i + 1, Whitespace))

JsonElements(s, i, acc) ==
    LET End(j, items) ==
            IF Char(s, j) = "]" THEN Parsed(PyList(items), j + 1)
            ELSE IF Char(s, j) = ","
            THEN JsonElements(s, SkipWhile(s, j + 1, Whitespace), items)
            ELSE Failed
        Element(v) ==
            IF ~v.ok THEN Failed
            ELSE End(SkipWhile(s, v.next, Whitespace), Append(acc, v.value))
    IN  Element(JsonValue(s, i))

JsonMembers(s, i, acc) ==
    LET End(j, members) ==
            IF Char(s, j) = "}" THEN Parsed(Dict(members), j + 1)
            ELSE IF Char(s, j) = ","
            THEN JsonMembers(s, SkipWhile(s, j + 1, Whitespace), members)
            ELSE Failed
        Member(k, v) ==
            IF ~v.ok THEN Failed
            ELSE End(SkipWhile(s, v.next, Whitespace),
                     Put(acc, k.value.value, v.value))
        Colon(k, colon) ==
            IF Char(s, colon) # ":" THEN Failed
            ELSE Member(k, JsonValue(s, SkipWhile(s, colon + 1, Whitespace)))
        Key(k) ==
            IF ~k.ok THEN Failed
            ELSE Colon(k, SkipWhile(s, k.next, Whitespace))
    IN  Key(JsonString(s, i))

json_loads(v) ==
    LET Whole(text, r) ==
            IF r.ok /\ SkipWhile(text, r.next, Whitespace) = Len(text) + 1
            THEN Return(r.value)
            ELSE [kind |-> "raise", message |-> "JSONDecodeError"]
    IN  IF v.type # "str"
        THEN [kind |-> "raise",
              message |-> "the JSON object must be str, bytes or bytearray, not "
                          \o v.type]
        ELSE Whole(v.value, JsonValue(v.value, SkipWhile(v.value, 1, Whitespace)))

\* the output_type of teste.py (class AnaliseMercado)
AnaliseMercado ==
    [name |-> "AnaliseMercado",
     fields |-> <<[name |-> "tendencia", type |-> "str"],
                  [name |-> "confianca", type |-> "float"],
                  [name |-> "acoes_recomendadas", type |-> "List[str]"]>>]

\* pydantic's validators of the field types str, float and List[str]
ValidateStr(v) ==
    IF v.type = "str" THEN Return(v)
    ELSE IF v.type \in {"int", "float", "bool"} THEN Return(Str(v.value))
    ELSE [kind |-> "raise", message |-> "str type expected"]

ValidateFloat(v) ==
    IF v.type = "float" THEN Return(v)
    ELSE IF v.type = "bool"
    THEN Return(Float(IF v.value = "True" THEN "1.0" ELSE "0.0"))
    ELSE IF v.type = "int" \/ (v.type = "str" /\ IsFloatLiteral(v.value))
    THEN Return(ToFloat(v.value))
    ELSE [kind |-> "raise", message |-> "value is not a valid float"]

ValidateList(v) ==
    LET Items(items) ==
            IF \E i \in DOMAIN items : items[i].kind = "raise"
            THEN [kind |-> "raise", message |-> "str type expected"]
            ELSE Return(PyList([i \in DOMAIN items |-> items[i].value]))
    IN  IF v.type # "list"
        THEN [kind |-> "raise", message |-> "value is not a valid list"]
        ELSE Items([i \in 1..Len(v.value) |-> ValidateStr(v.value[i])])

ValidateField(type, v) ==
    CASE type = "str" -> ValidateStr(v)
      [] type = "float" -> ValidateFloat(v)
      [] type = "List[str]" -> ValidateList(v)
      [] OTHER -> Return(v)

FieldNames(model_type) ==
    {model_type.fields[i].name : i \in 1..Len(model_type.fields)}

FieldIndex(model_type, field_name) ==
    CHOOSE i \in 1..Len(model_type.fields) :
        model_type.fields[i].name = field_name

FieldType(model_type, field_name) ==
    model_type.fields[FieldIndex(model_type, field_name)].type

\* a field that data does not supply is left None
ValidateFields_Optional(model_type, data) ==
    [i \in 1..Len(model_type.fields) |->
        IF Has(data, model_type.fields[i].name)
        THEN ValidateField(model_type.fields[i].type,
                           data[model_type.fields[i].name])
        ELSE Return(None)]

\* the validation of every declared field, in declaration order: a field
\* that data does not supply is an error, every field being required
ValidateFields(model_type, data) ==
    [i \in 1..Len(model_type.fields) |->
        IF Has(data, model_type.fields[i].name)
        THEN ValidateField(model_type.fields[i].type,
                           data[model_type.fields[i].name])
        ELSE [kind |-> "raise", message |-> "field required"]]

\* the first field, in declaration order, whose validation failed (0: none)
FirstInvalidField(validated) ==
    IF \E i \in DOMAIN validated : validated[i].kind = "raise"
    THEN CHOOSE i \in DOMAIN validated :
            /\ validated[i].kind = "raise"
            /\ \A j \in 1..(i - 1) : validated[j].kind # "raise"
    ELSE 0

\* the instance of the validated fields, or the error of the first bad one
Instance(model_type, validated) ==
    LET bad == FirstInvalidField(validated)
    IN  IF bad # 0
        THEN [kind |-> "raise",
              message |-> "validation error for " \o model_type.name \o ": "
                          \o model_type.fields[bad].name \o ": "
                          \o validated[bad].message]
        ELSE Return([kind |-> "BaseModel", type |-> model_type.name,
                     dict |-> Dict([f \in FieldNames(model_type) |->
                                       validated[FieldIndex(model_type, f)].value])])

\* the model built from data: other keys than the fields are ignored
Construct(model_type, data) ==
    IF data.type # "dict"
    THEN [kind |-> "raise",
          message |-> "argument after ** must be a mapping, not " \o data.type]
    ELSE Instance(model_type, ValidateFields(model_type, data.value))

\* the result of re.search: group(1).strip() of the leftmost match
NoMatch == [matched |-> FALSE]
Match(text) == [matched |-> TRUE, text |-> text]

\* the first position from i on that is the end of the text or one of stops
RECURSIVE SkipUntil(_, _, _)
SkipUntil(s, i, stops) ==
    IF i > Len(s) \/ Char(s, i) \in stops THEN i ELSE SkipUntil(s, i + 1, stops)

SameIgnoringCase(s, i, word) ==
    /\ i + Len(word) - 1 <= Len(s)
    /\ LowerChar(Char(s, i)) = LowerChar(Char(word, 1))
    /\ Lower(SubSeq(s, i, i + Len(word) - 1)) = Lower(word)

\* the character that closes a value opened by c, "" when c opens none
Closing(c) ==
    CASE c = "\"" -> "\"" [] c = "[" -> "]" [] c = "{" -> "}" [] OTHER -> ""

\* "<field>"\s*:\s*(".*?"|\d+(\.\d+)?|\[.*?\]|\{.*?\}|true|false|null) at p
QuotedAt(s, field_name, p) ==
    LET Closed(first, j) ==
            IF j = 0 \/ Find(SubSeq(s, first, j), "\n", 1) # 0 THEN NoMatch
            ELSE Match(Strip(SubSeq(s, first, j), Whitespace))
        Fraction(first, int_end, frac_end) ==
            IF Char(s, int_end) = "." /\ frac_end > int_end + 1
            THEN Match(SubSeq(s, first, frac_end - 1))
            ELSE Match(SubSeq(s, first, int_end - 1))
        Number(first, int_end) ==
            Fraction(first, int_end, SkipWhile(s, int_end + 1, Digits))
        Keyword(first, words) ==
            IF words = {} THEN NoMatch
            ELSE Match(SubSeq(s, first,
                              first + Len(CHOOSE w \in words : TRUE) - 1))
        Value(first, c) ==
            IF Closing(c) # "" THEN Closed(first, Find(s, Closing(c), first + 1))
            ELSE IF c \in Digits THEN Number(first, SkipWhile(s, first, Digits))
            ELSE Keyword(first, {w \in {"true", "false", "null"} :
                                    SameIgnoringCase(s, first, w)})
        First(first) == Value(first, Char(s, first))
        Colon(colon) ==
            IF Char(s, colon) # ":" THEN NoMatch
            ELSE First(SkipWhile(s, colon + 1, Whitespace))
    IN  IF \/ Char(s, p) # "\""
           \/ ~SameIgnoringCase(s, p + 1, field_name)
           \/ Char(s, p + Len(field_name) + 1) # "\""
        THEN NoMatch
        ELSE Colon(SkipWhile(s, p + Len(field_name) + 2, Whitespace))

\* <field>\s*:\s*([^,\n]+) at p; when no value follows the blanks, the group
\* takes a blank that \s* gives back
UnquotedAt(s, field_name, p) ==
    LET Group(colon, first, end) ==
            IF end > first
            THEN Match(Strip(SubSeq(s, first, end - 1), Whitespace))
            ELSE IF \E k \in (colon + 1)..(first - 1) : Char(s, k) # "\n"
            THEN Match("")
            ELSE NoMatch
        Value(colon, first) ==
            Group(colon, first, SkipUntil(s, first, {",", "\n"}))
        Colon(colon) ==
            IF Char(s, colon) # ":" THEN NoMatch
            ELSE Value(colon, SkipWhile(s, colon + 1, Whitespace))
    IN  IF ~SameIgnoringCase(s, p, field_name) THEN NoMatch
        ELSE Colon(SkipWhile(s, p + Len(field_name), Whitespace))

\* lines 350-354: the patterns of a field, in the order they are tried
Patterns(field_name) ==
    <<[quoted |-> TRUE, name |-> field_name],
      [quoted |-> FALSE, name |-> field_name],
      [quoted |-> FALSE, name |-> Title(field_name)]>>

MatchAt(s, pattern, p) ==
    IF pattern.quoted THEN QuotedAt(s, pattern.name, p)
    ELSE UnquotedAt(s, pattern.name, p)

\* re.search(pattern, output, re.IGNORECASE) from position p on
Search(s, pattern, p) ==
    LET Leftmost(starts) ==
            IF starts = {} THEN NoMatch
            ELSE MatchAt(s, pattern,
                         CHOOSE q \in starts : \A other \in starts : q <= other)
    IN  Leftmost({q \in p..Len(s) : MatchAt(s, pattern, q).matched})

\* lines 358-360 and 386: the for loop over the patterns, left at a match
RECURSIVE FirstMatchFrom(_, _, _)
FirstMatchFrom(s, patterns, n) ==
    LET Found(matches) ==
            IF matches.matched THEN matches
            ELSE FirstMatchFrom(s, patterns, n + 1)
    IN  IF n > Len(patterns) THEN NoMatch
        ELSE Found(Search(s, patterns[n], 1))

FirstMatch(s, field_name) == FirstMatchFrom(s, Patterns(field_name), 1)

\* lines 372-375: the list of a captured text in brackets
ConvertList(value_str, list) ==
    IF list.kind = "return" THEN list.value
    ELSE PyList(Split(Strip(value_str, {"[", "]"}), ","))

\* lines 364-384: the Python value of a captured text
ConvertValue(value_str) ==
    IF Char(value_str, 1) = "\"" /\ Char(value_str, Len(value_str)) = "\""
    THEN Str(SubSeq(value_str, 2, Len(value_str) - 1))
    ELSE IF Lower(value_str) \in {"true", "false"}
    THEN Bool(Lower(value_str) = "true")
    ELSE IF Char(value_str, 1) = "[" /\ Char(value_str, Len(value_str)) = "]"
    THEN ConvertList(value_str, json_loads(Str(value_str)))
    ELSE IF Find(value_str, ".", 1) # 0
    THEN IF IsFloatLiteral(value_str) THEN ToFloat(value_str) ELSE Str(value_str)
    ELSE IF IsIntLiteral(value_str) THEN IntLiteral(Strip(value_str, Whitespace))
    ELSE Str(value_str)

\* no block is ever taken from the text
EmbeddedBlockParse_Never(output) == [kind |-> "skip"]

\* lines 335-341: the text from the first "{" to the last "}" as json
EmbeddedBlockParse(output) ==
    LET Block(start_idx, end_idx) ==
            IF start_idx >= 1 /\ end_idx > start_idx
            THEN json_loads(Str(SubSeq(output.value, start_idx, end_idx)))
            ELSE [kind |-> "skip"]
    IN  IF output.type # "str"
        THEN [kind |-> "raise", message |-> "object has no attribute 'find'"]
        ELSE Block(Find(output.value, "{", 1),
                   RFind(output.value, "}", Len(output.value)))

\* lines 348-386: the values of the fields found in the text
ConvertedValues(model_type, matches) ==
    [f \in {g \in FieldNames(model_type) : matches[g].matched} |->
        ConvertValue(matches[f].text)]

\* lines 347-387: the fields found as "field: value" in the text
KeyValueScan(output, model_type) ==
    IF output.type # "str" /\ Len(model_type.fields) > 0
    THEN [kind |-> "raise", message |-> "expected string or bytes-like object"]
    ELSE Return(Dict(ConvertedValues(model_type,
                        [f \in FieldNames(model_type) |->
                            FirstMatch(output.value, f)])))

\* the key-value scan first and the direct parse last
Strategy_ScanFirst(n, output, model_type) ==
    CASE n = 1 -> KeyValueScan(output, model_type)
      [] n = 2 -> EmbeddedBlockParse(output)
      [] n = 3 -> json_loads(output)

\* the data of the three strategies, in the order they are tried: the
\* first (lines 325-326) takes the whole text as json
Strategy(n, output, model_type) ==
    CASE n = 1 -> json_loads(output)
      [] n = 2 -> EmbeddedBlockParse(output)
      [] n = 3 -> KeyValueScan(output, model_type)

\* lines 327, 342 and 390: the model built from the data of a strategy
Attempt(model_type, data) ==
    IF data.kind = "return" THEN Construct(model_type, data.value) ELSE data

\* the ValueError without the text of the exception it was raised for
ExtractionError_Bare(message) ==
    [kind |-> "raise", message |-> "Não foi possível extrair dados estruturados"]

ExtractionError(message) ==
    [kind |-> "raise",
     message |-> "Não foi possível extrair dados estruturados: " \o message]

\* the strategies from the n-th on: the first instance is returned, the
\* exception of the last is raised as a ValueError
RECURSIVE FirstInstance(_, _, _)
FirstInstance(output, model_type, n) ==
    LET Tried(attempt) ==
            IF attempt.kind = "return" THEN attempt
            ELSE IF n = 3 THEN ExtractionError(attempt.message)
            ELSE FirstInstance(output, model_type, n + 1)
    IN  Tried(Attempt(model_type, Strategy(n, output, model_type)))

\* Analyst._parse_output_to_model: the first strategy that yields an instance
_parse_output_to_model(output, model_type) == FirstInstance(output, model_type, 1)

-----------------------------------------------------------------------------
(* Supervisor.run and Supervisor._call_orion_api.                          *)


max_iterations == 10

NoOutputType == [name |-> "None", fields |-> <<>>]

\* lines 216-222: the payload of the first request
InitialPayload(tool_list, agents, model_type) ==
    LET base == [prompt |-> Str("# Instruções"), max_tokens |-> 1500,
                 agent_type |-> Str("supervisor"),
                 tools |-> [i \in 1..Len(tool_list) |-> tool_list[i].name],
                 supervised_agents |-> [i \in 1..Len(agents) |-> agents[i].id]]
    IN  IF model_type # NoOutputType /\ Len(model_type.fields) > 0
        THEN Put(base, "output_schema",
                 [f \in FieldNames(model_type) |-> FieldType(model_type, f)])
        ELSE base

\* the cap compared with <= instead of <
LoopContinues_OffByOne(needs, iteration) == needs /\ iteration <= max_iterations

\* the while condition without the cap
LoopContinues_Uncapped(needs, iteration) == needs

\* line 243: the while condition
LoopContinues(needs, iteration) == needs /\ iteration < max_iterations

\* the delegation branch taken whatever the response lists
HasDelegations_Always(r) == TRUE

\* lines 248 and 267: the branch conditions of the loop body
HasToolCalls(r) == Has(r, "tool_calls")
HasDelegations(r) == Has(r, "agent_delegations")

\* the list a for loop of the body walks
ListOf(r, key) == Get(r, key, <<>>)

\* line 193: AgentResult(response.get("content", ""), raw_response=response)
AgentResult(r) ==
    [kind |-> "AgentResult", content |-> Get(r, "content", Str("")),
     raw_response |-> r]

\* lines 193-207: what run does with the response of the loop
ConversionError(model_type, message) ==
    [kind |-> "raise",
     message |-> "Não foi possível converter o resultado para "
                 \o model_type.name \o ": " \o message]

\* lines 199-207: the instance, or what a failed extraction leaves
StructuredOutcome(parsed, r, model_type, required) ==
    IF parsed.kind = "return" THEN parsed
    ELSE IF required THEN ConversionError(model_type, parsed.message)
    ELSE Return(AgentResult(r))

\* a failed extraction gives the raw result, required or not
RunOutcome_IgnoresRequired(r, model_type, required) ==
    IF model_type = NoOutputType THEN Return(AgentResult(r))
    ELSE StructuredOutcome(_parse_output_to_model(AgentResult(r).content, model_type),
                           r, model_type, FALSE)

RunOutcome(r, model_type, required) ==
    IF model_type = NoOutputType THEN Return(AgentResult(r))
    ELSE StructuredOutcome(_parse_output_to_model(AgentResult(r).content, model_type),
                           r, model_type, required)

Unset == [kind |-> "unset"]

\* the state after Supervisor(..., output_type, require_output_type)
Constructed(model_type, required) ==
    /\ tools = <<buscar_cotacao, dados_economicos>>
    /\ supervised_agents = <<redatorSimples, analystData>>
    /\ output_type = model_type
    /\ require_output_type = required
    /\ pc = "start"
    /\ payload = EmptyDict
    /\ result = EmptyDict
    /\ needs_more_processing = TRUE
    /\ current_iteration = 0
    /\ tool_results = <<>>
    /\ delegation_results = <<>>
    /\ idx = 0
    /\ response = EmptyDict
    /\ outcome = Unset
    /\ call_input = EmptyDict
    /\ call_output = Unset
    /\ requests = 0
    /\ status = "none"
    /\ _REGISTERED_TOOLS = RegisteredByTeste
    /\ suspended = Unset
    /\ executed = <<>>

Init == Constructed(NoOutputType, FALSE)

\* the exception is swallowed and the loop goes on
Raise_Continues(message) ==
    /\ pc' = "while"
    /\ UNCHANGED outcome

\* an exception leaves run
Raise(message) ==
    /\ pc' = "raised"
    /\ outcome' = [kind |-> "raise", message |-> message]

\* lines 216-241: the first round-trip
InitialRequest(Rs) ==
    /\ pc = "start"
    /\ payload' = InitialPayload(tools, supervised_agents, output_type)
    /\ requests' = requests + 1
    /\ status' = "ok"
    /\ \E r \in Rs :
          /\ result' = r
          /\ pc' = "while"
    /\ needs_more_processing' = TRUE
    /\ current_iteration' = 0
    /\ UNCHANGED <<config, tool_results, delegation_results, idx, response,
                   outcome, executed>>

\* lines 243-252 and 267-271: the loop test succeeds and the body starts
EnterIteration ==
    /\ pc = "while"
    /\ LoopContinues(needs_more_processing, current_iteration)
    /\ current_iteration' = current_iteration + 1
    /\ IF HasToolCalls(result) THEN
          /\ needs_more_processing' = TRUE
          /\ tool_results' = <<>>
          /\ idx' = 1
          /\ pc' = "tool_calls"
          /\ UNCHANGED delegation_results
       ELSE IF HasDelegations(result) THEN
          /\ needs_more_processing' = TRUE
          /\ delegation_results' = <<>>
          /\ idx' = 1
          /\ pc' = "agent_delegations"
          /\ UNCHANGED tool_results
       ELSE
          /\ needs_more_processing' = FALSE
          /\ pc' = "while"
          /\ UNCHANGED <<tool_results, delegation_results, idx>>
    /\ UNCHANGED <<config, status, payload, result, response, outcome, requests, executed>>

\* lines 253-258: one pass of the for loop over result["tool_calls"]
ExecuteToolCall ==
    /\ pc = "tool_calls"
    /\ idx <= Len(ListOf(result, "tool_calls"))
    /\ LET tool_call == result.tool_calls[idx]
           tool_result == _execute_tool_call(tools, tool_call)
       IN  /\ executed' = Append(executed,
                                 [kind |-> "tool_call", id |-> tool_call.id,
                                  invoked |-> ToolExecution(tools, tool_call).invoked])
           /\ IF tool_result.kind = "raise" THEN
                 /\ Raise(tool_result.message)
                 /\ UNCHANGED <<tool_results, idx>>
              ELSE
                 /\ tool_results' = Append(tool_results,
                                           [tool_call_id |-> tool_call.id,
                                            result |-> tool_result.value])
                 /\ idx' = idx + 1
                 /\ UNCHANGED <<pc, outcome>>
    /\ UNCHANGED <<config, status, payload, result, needs_more_processing,
                   current_iteration, delegation_results, response, requests>>

\* lines 260-271: the tool results go back and the answer replaces result
SendToolResults(Rs) ==
    /\ pc = "tool_calls"
    /\ idx > Len(ListOf(result, "tool_calls"))
    /\ payload' = Put(payload, "tool_results", tool_results)
    /\ requests' = requests + 1
    /\ status' = "ok"
    /\ executed' = <<>>
    /\ \E r \in Rs :
          /\ result' = r
          /\ IF HasDelegations(r) THEN
                /\ delegation_results' = <<>>
                /\ idx' = 1
                /\ pc' = "agent_delegations"
             ELSE
                /\ pc' = "while"
                /\ UNCHANGED <<delegation_results, idx>>
    /\ UNCHANGED <<config, needs_more_processing, current_iteration,
                   tool_results, response, outcome>>

\* lines 272-273 and 321-332: the for loop reaches a delegation and resolves it
StartDelegation ==
    /\ pc = "agent_delegations"
    /\ idx <= Len(ListOf(result, "agent_delegations"))
    /\ LET delegation == result.agent_delegations[idx]
           agent_id == Get(delegation, "agent_id", None)
       IN  IF FindAgent(supervised_agents, agent_id) = 0 THEN
              /\ delegation_results' = Append(delegation_results,
                                              [delegation_id |-> delegation.id,
                                               result |-> AgentNotFound(agent_id)])
              /\ executed' = Append(executed,
                                    [kind |-> "delegation", id |-> delegation.id,
                                     invoked |-> <<>>])
              /\ idx' = idx + 1
              /\ UNCHANGED pc
           ELSE
              /\ pc' = "agent_run"
              /\ UNCHANGED <<delegation_results, executed, idx>>
    /\ UNCHANGED <<config, status, payload, result, needs_more_processing,
                   current_iteration, tool_results, response, outcome, requests>>

\* the result of the run that ended goes in front of those collected
FinishDelegation_Prepends ==
    /\ pc = "agent_run"
    /\ LET delegation == result.agent_delegations[idx]
           agent == supervised_agents[FindAgent(supervised_agents,
                                                Get(delegation, "agent_id", None))]
       IN  \E run \in AgentRunOutcomes(agent) :
              LET delegation_result == DelegationResult(agent, run)
              IN  /\ executed' = Append(executed,
                                        [kind |-> "delegation", id |-> delegation.id,
                                         invoked |-> <<[agent |-> agent.id,
                                                        input |-> Get(delegation, "input",
                                                                      Str(""))]>>,
                                         returned |-> run])
                  /\ IF delegation_result.kind = "raise" THEN
                        /\ Raise(delegation_result.message)
                        /\ UNCHANGED <<delegation_results, idx>>
                     ELSE
                        /\ delegation_results' =
                              <<[delegation_id |-> delegation.id,
                                 result |-> delegation_result.value]>>
                              \o delegation_results
                        /\ idx' = idx + 1
                        /\ pc' = "agent_delegations"
                        /\ UNCHANGED outcome
    /\ UNCHANGED <<config, status, payload, result, needs_more_processing,
                   current_iteration, tool_results, response, requests>>

\* lines 334-346 and 274-277: the awaited agent.run ends
FinishDelegation ==
    /\ pc = "agent_run"
    /\ LET delegation == result.agent_delegations[idx]
           agent == supervised_agents[FindAgent(supervised_agents,
                                                Get(delegation, "agent_id", None))]
       IN  \E run \in AgentRunOutcomes(agent) :
              LET delegation_result == DelegationResult(agent, run)
              IN  /\ executed' = Append(executed,
                                        [kind |-> "delegation", id |-> delegation.id,
                                         invoked |-> <<[agent |-> agent.id,
                                                        input |-> Get(delegation, "input",
                                                                      Str(""))]>>,
                                         returned |-> run])
                  /\ IF delegation_result.kind = "raise" THEN
                        /\ Raise(delegation_result.message)
                        /\ UNCHANGED <<delegation_results, idx>>
                     ELSE
                        /\ delegation_results' =
                              Append(delegation_results,
                                     [delegation_id |-> delegation.id,
                                      result |-> delegation_result.value])
                        /\ idx' = idx + 1
                        /\ pc' = "agent_delegations"
                        /\ UNCHANGED outcome
    /\ UNCHANGED <<config, status, payload, result, needs_more_processing,
                   current_iteration, tool_results, response, requests>>

\* the request after the delegations carries the results and nothing else
SendDelegationResults_ResultsOnly(Rs) ==
    /\ pc = "agent_delegations"
    /\ idx > Len(ListOf(result, "agent_delegations"))
    /\ payload' = [delegation_results |-> delegation_results]
    /\ requests' = requests + 1
    /\ status' = "ok"
    /\ executed' = <<>>
    /\ \E r \in Rs :
          /\ result' = r
          /\ pc' = "while"
    /\ UNCHANGED <<config, needs_more_processing, current_iteration,
                   tool_results, delegation_results, idx, response, outcome>>

\* lines 279-283: the delegation results go back
SendDelegationResults(Rs) ==
    /\ pc = "agent_delegations"
    /\ idx > Len(ListOf(result, "agent_delegations"))
    /\ payload' = Put(payload, "delegation_results", delegation_results)
    /\ requests' = requests + 1
    /\ status' = "ok"
    /\ executed' = <<>>
    /\ \E r \in Rs :
          /\ result' = r
          /\ pc' = "while"
    /\ UNCHANGED <<config, needs_more_processing, current_iteration,
                   tool_results, delegation_results, idx, response, outcome>>

\* lines 233-234, 262-263, 281-282: requests.post or raise_for_status raises
RequestFails ==
    /\ \/ /\ pc = "start"
          /\ payload' = InitialPayload(tools, supervised_agents, output_type)
       \/ /\ pc = "tool_calls"
          /\ idx > Len(ListOf(result, "tool_calls"))
          /\ payload' = Put(payload, "tool_results", tool_results)
       \/ /\ pc = "agent_delegations"
          /\ idx > Len(ListOf(result, "agent_delegations"))
          /\ payload' = Put(payload, "delegation_results", delegation_results)
    /\ requests' = requests + 1
    /\ status' = "error"
    /\ Raise("HTTPError")
    /\ UNCHANGED <<config, result, needs_more_processing, current_iteration,
                   tool_results, delegation_results, idx, response, executed>>

\* lines 243, 285 and 190: the loop test fails and the loop returns result
ReturnResult ==
    /\ pc = "while"
    /\ ~LoopContinues(needs_more_processing, current_iteration)
    /\ response' = result
    /\ pc' = "returned"
    /\ UNCHANGED <<config, status, payload, result, needs_more_processing,
                   current_iteration, tool_results, delegation_results, idx,
                   outcome, requests, executed>>

\* lines 192-207: run builds what it returns from the response
Finish ==
    /\ pc = "returned"
    /\ \E run \in {RunOutcome(response, output_type, require_output_type)} :
          IF run.kind = "raise" THEN Raise(run.message)
          ELSE pc' = "done" /\ outcome' = run.value
    /\ UNCHANGED <<config, status, payload, result, needs_more_processing,
                   current_iteration, tool_results, delegation_results, idx,
                   response, requests, executed>>

\* one Supervisor.run against a backend that answers from Rs
Run(Rs) ==
    \/ InitialRequest(Rs)
    \/ EnterIteration
    \/ ExecuteToolCall
    \/ SendToolResults(Rs)
    \/ StartDelegation
    \/ FinishDelegation
    \/ SendDelegationResults(Rs)
    \/ ReturnResult
    \/ Finish

Next == Run(Responses) \/ RequestFails

Spec == Init /\ [][Next]_vars

\* the same run when every request and every awaited agent.run returns:
\* a step that can be taken is taken
SpecReturns == Init /\ [][Next]_vars /\ WF_vars(Next)

\* the backend always answers, and always with tool calls and delegations
NextBoth == Run(BothResponses)

SpecBoth == Init /\ [][NextBoth]_vars

\* the backend lists, when it delegates, two supervised agents and then
\* an id that no supervised agent has
DelegationResponses ==
    ResponsesOf({Str("sem dados")}, {<<ToolCalls[1]>>},
                {<<Delegations[2], Delegations[3], Delegations[1]>>})

NextDelegations == Run(DelegationResponses)

SpecDelegations == Init /\ [][NextDelegations]_vars

-----------------------------------------------------------------------------
(* A run of a Supervisor that may have an output_type.                     *)

\* lines 76-77: require_output_type without an output_type is refused
OutputConfigs ==
    {<<NoOutputType, FALSE>>, <<AnaliseMercado, FALSE>>, <<AnaliseMercado, TRUE>>}

JsonText ==
    "{\"tendencia\": \"alta\", \"confianca\": 0.8, \"acoes_recomendadas\": [\"PETR4\"]}"

\* the texts of a response: json, json inside prose, "field: value" pairs,
\* prose, json without two of the fields, and null
RunContents ==
    {Str(JsonText),
     Str("Segue a análise: " \o JsonText \o " Fim."),
     Str("tendencia: alta, confianca: 0.8, acoes_recomendadas: [PETR4]"),
     Str("sem dados"),
     Str("{\"tendencia\": \"alta\"}"),
     None}

\* the responses of the backend, one of them without any key
RunResponses ==
    ResponsesOf(RunContents, {<<ToolCalls[2]>>}, {<<Delegations[2]>>})
    \cup {EmptyDict}

InitRun == \E c \in OutputConfigs : Constructed(c[1], c[2])

NextRun == Run(RunResponses) \/ RequestFails

SpecRun == InitRun /\ [][NextRun]_vars

-----------------------------------------------------------------------------
(* Supervisor(...) as a step: the arguments are there, the object is not.  *)

\* the check passes whatever the arguments are
RequiredWithoutType_Never(model_type, required) == FALSE

\* line 76 (Analyst.__init__: analystsdk.py 135): the test of the constructor
RequiredWithoutType(model_type, required) ==
    required /\ model_type = NoOutputType

\* line 77 (analystsdk.py 136): the text of the ValueError
ConfigurationError == "output_type é obrigatório quando require_output_type=True"

\* before the call: output_type and require_output_type hold the arguments
InitNew ==
    /\ pc = "new"
    /\ output_type \in {NoOutputType, AnaliseMercado}
    /\ require_output_type \in BOOLEAN
    /\ tools = <<>>
    /\ supervised_agents = <<>>
    /\ payload = EmptyDict
    /\ result = EmptyDict
    /\ needs_more_processing = TRUE
    /\ current_iteration = 0
    /\ tool_results = <<>>
    /\ delegation_results = <<>>
    /\ idx = 0
    /\ response = EmptyDict
    /\ outcome = Unset
    /\ call_input = EmptyDict
    /\ call_output = Unset
    /\ requests = 0
    /\ status = "none"
    /\ _REGISTERED_TOOLS = RegisteredByTeste
    /\ suspended = Unset
    /\ executed = <<>>

\* lines 68-93: Supervisor.__init__ raises or leaves an object that can run
__init__ ==
    /\ pc = "new"
    /\ IF RequiredWithoutType(output_type, require_output_type) THEN
          /\ Raise(ConfigurationError)
          /\ UNCHANGED <<tools, supervised_agents>>
       ELSE
          /\ tools' = <<buscar_cotacao, dados_economicos>>
          /\ supervised_agents' = <<redatorSimples, analystData>>
          /\ pc' = "start"
          /\ UNCHANGED outcome
    /\ UNCHANGED <<_REGISTERED_TOOLS, suspended,
                   output_type, require_output_type, payload, result,
                   needs_more_processing, current_iteration, tool_results,
                   delegation_results, idx, response, call_input, call_output,
                   requests, status,
                   executed>>

NextNew == __init__ \/ Run(RunResponses) \/ RequestFails

SpecNew == InitNew /\ [][NextNew]_vars

-----------------------------------------------------------------------------
(* _execute_tool_call on its own, for any tool call and either agent's     *)
(* tool list (Supervisor and Analyst share the code of the method).        *)

\* the tool lists of teste.py's agents, and one whose tool has a parameter
\* that the function gives a default
ToolLists ==
    {<<buscar_cotacao, dados_economicos>>, <<dados_economicos>>,
     <<tool(EmptyDict, CHOOSE f \in Functions : f.defaults # {}, "")["buscar_cotacao"]>>}

ToolCallNames == {{}, {Str("buscar_cotacao")}, {Str("dados_economicos")},
                  {Str("inexistente")}}

ToolCallArguments ==
    {{}, {None}, {Dict(EmptyDict)},
     {Dict([ticker |-> Str("PETR4")])}, {Dict([ticker |-> Str("XXXX")])},
     {Dict([ticker |-> Str("TODOS")])}, {Dict([ticker |-> Float("5.0")])},
     {Dict([ticker |-> Dict(EmptyDict)])}, {Dict([pais |-> Str("BR")])},
     {Dict([ticker |-> Str("PETR4"), pais |-> Str("BR")])},
     {Dict([ticker |-> Str("PETR4"), bolsa |-> Str("B3")])}}

ToolCallInputs ==
    {LET base == [id |-> "call_1"]
         named == IF n = {} THEN base ELSE Put(base, "name", CHOOSE x \in n : TRUE)
     IN  IF a = {} THEN named ELSE Put(named, "arguments", CHOOSE x \in a : TRUE)
     : n \in ToolCallNames, a \in ToolCallArguments}

InitExec ==
    /\ tools \in ToolLists
    /\ supervised_agents = <<>>
    /\ output_type = NoOutputType
    /\ require_output_type = FALSE
    /\ pc = "tool_call"
    /\ payload = EmptyDict
    /\ result = EmptyDict
    /\ needs_more_processing = TRUE
    /\ current_iteration = 0
    /\ tool_results = <<>>
    /\ delegation_results = <<>>
    /\ idx = 0
    /\ response = EmptyDict
    /\ outcome = Unset
    /\ call_input \in ToolCallInputs
    /\ call_output = Unset
    /\ requests = 0
    /\ status = "none"
    /\ _REGISTERED_TOOLS = RegisteredByTeste
    /\ suspended = Unset
    /\ executed = <<>>

\* lines 287-317 (Supervisor) and 276-306 (Analyst)
ExecuteAlone ==
    /\ pc = "tool_call"
    /\ call_output' = [outcome |-> _execute_tool_call(tools, call_input),
                       invoked |-> ToolExecution(tools, call_input).invoked]
    /\ pc' = "executed"
    /\ UNCHANGED <<_REGISTERED_TOOLS, suspended,
                   tools, supervised_agents, output_type, require_output_type,
                   payload, result, needs_more_processing, current_iteration,
                   tool_results, delegation_results, idx, response, outcome,
                   call_input, requests, status, executed>>

SpecExec == InitExec /\ [][ExecuteAlone]_vars

\* a run, or a tool call on its own
InitFailures == Init \/ InitExec

NextFailures == Next \/ ExecuteAlone

SpecFailures == InitFailures /\ [][NextFailures]_vars

-----------------------------------------------------------------------------
(* Analyst._parse_output_to_model on its own: one step per try block.      *)

MaxInvocations == 2

\* json objects: all fields; a negative number and an empty list; one field
\* only; an integer, two items and a key that is no field; a wrong type
JsonObjects ==
    {JsonText,
     "{\"tendencia\": \"baixa\", \"confianca\": -0.5, \"acoes_recomendadas\": []}",
     "{\"tendencia\": \"alta\"}",
     "{\"tendencia\": \"alta\", \"confianca\": 1, \"acoes_recomendadas\": [\"A\", \"B\"], \"extra\": null}",
     "{\"tendencia\": \"alta\", \"confianca\": \"muita\", \"acoes_recomendadas\": [\"A\"]}"}

\* texts without json that pair fields with values, and texts that do not
KeyValueTexts ==
    {"tendencia: alta, confianca: 0.8, acoes_recomendadas: [PETR4]",
     "Tendencia: alta\nConfianca: 12abc\nAcoes_Recomendadas: [\"A\"]",
     "\"tendencia\": \"alta\", tendencia: baixa, confianca: 1.5, acoes_recomendadas: []",
     "tendencia: 1.2.3, confianca: 7, acoes_recomendadas: [x]",
     "tendencia: alta, confianca: 0.8",
     "tendencia: alta, confianca: 0.8, acoes_recomendadas: [A, B]",
     "tendencia: true, confianca: 0.5, acoes_recomendadas: []",
     "TENDENCIA : baixa\nconfianca:0.25\nacoes_recomendadas:\n[\"A\"]",
     "sem dados",
     ""}

ProseBefore == {"", "Veja: ", "Em {x}: "}
ProseAfter == {"", " Fim."}

\* the output argument: a text of the model, or None
ExtractOutputs ==
    {Str(before \o body \o after) :
        before \in ProseBefore, body \in JsonObjects \cup KeyValueTexts,
        after \in ProseAfter}
    \cup {None}

InitExtract ==
    /\ tools \in ToolLists
    /\ supervised_agents \in {<<>>, <<redatorSimples, analystData>>}
    /\ output_type = AnaliseMercado
    /\ require_output_type = FALSE
    /\ pc = "extract"
    /\ payload = EmptyDict
    /\ result = EmptyDict
    /\ needs_more_processing = TRUE
    /\ current_iteration = 0
    /\ tool_results = <<>>
    /\ delegation_results = <<>>
    /\ idx = 1
    /\ response = EmptyDict
    /\ outcome = Unset
    /\ call_input \in {[output |-> o, model_type |-> AnaliseMercado] :
                          o \in ExtractOutputs}
    /\ call_output = <<>>
    /\ requests = 0
    /\ status = "none"
    /\ _REGISTERED_TOOLS = RegisteredByTeste
    /\ suspended = Unset
    /\ executed = <<>>

\* lines 324-392: the try block of strategy idx; an instance is returned,
\* the exception of the last block is raised as a ValueError, and any other
\* outcome leads to the next block
TryStrategy ==
    /\ pc = "extract"
    /\ executed' = Append(executed, [kind |-> "strategy", id |-> idx])
    /\ \E attempt \in {Attempt(call_input.model_type,
                               Strategy(idx, call_input.output,
                                        call_input.model_type))} :
          IF attempt.kind = "return" THEN
             /\ call_output' = Append(call_output,
                                      [strategy |-> idx, outcome |-> attempt])
             /\ pc' = "extracted"
             /\ UNCHANGED idx
          ELSE IF idx = 3 THEN
             /\ call_output' = Append(call_output,
                                      [strategy |-> idx,
                                       outcome |-> ExtractionError(attempt.message)])
             /\ pc' = "extracted"
             /\ UNCHANGED idx
          ELSE
             /\ idx' = idx + 1
             /\ UNCHANGED <<pc, call_output>>
    /\ UNCHANGED <<_REGISTERED_TOOLS, suspended,
                   tools, supervised_agents, output_type, require_output_type,
                   payload, result, needs_more_processing, current_iteration,
                   tool_results, delegation_results, response, outcome,
                   call_input, requests, status>>

\* the next call starts at the strategy after the one the last ended in
ExtractAgain_StartsLater ==
    /\ pc = "extracted"
    /\ Len(call_output) < MaxInvocations
    /\ pc' = "extract"
    /\ idx' = IF idx < 3 THEN idx + 1 ELSE 3
    /\ executed' = <<>>
    /\ UNCHANGED <<_REGISTERED_TOOLS, suspended,
                   tools, supervised_agents, output_type, require_output_type,
                   payload, result, needs_more_processing, current_iteration,
                   tool_results, delegation_results, response, outcome,
                   call_input, call_output, requests, status>>

\* the method is called once more with the same arguments
ExtractAgain ==
    /\ pc = "extracted"
    /\ Len(call_output) < MaxInvocations
    /\ pc' = "extract"
    /\ idx' = 1
    /\ executed' = <<>>
    /\ UNCHANGED <<_REGISTERED_TOOLS, suspended,
                   tools, supervised_agents, output_type, require_output_type,
                   payload, result, needs_more_processing, current_iteration,
                   tool_results, delegation_results, response, outcome,
                   call_input, call_output, requests, status>>

NextExtract == TryStrategy \/ ExtractAgain

SpecExtract == InitExtract /\ [][NextExtract]_vars

-----------------------------------------------------------------------------
(* The `tool` decorator and the tools argument of Analyst(...) and         *)
(* Supervisor(...), for any order of registrations and any list.           *)

MaxRegistrations == 2

\* lines 140-149 (supervisorsdk.py 81-93): self.tools and the registry after
\* the for loop over the tools argument, with the registrations it made
RECURSIVE ProcessTools(_, _, _, _)
ProcessTools(registry, listed, registrations, callables) ==
    LET Listed(registered, made) ==
            ProcessTools(registered,
                         Append(listed, registered[Head(callables).__name__]),
                         registrations \o made, Tail(callables))
    IN  IF callables = <<>>
        THEN [tools |-> listed, registry |-> registry,
              registrations |-> registrations]
        ELSE IF Head(callables).__name__ \in DOMAIN registry
        THEN Listed(registry, <<>>)
        ELSE Listed(tool(registry, Head(callables), ""),
                    <<[kind |-> "registration", id |-> Head(callables).function,
                       name |-> Head(callables).__name__]>>)

InitRegistry ==
    /\ _REGISTERED_TOOLS = EmptyDict
    /\ suspended = Unset
    /\ tools = <<>>
    /\ supervised_agents = <<>>
    /\ output_type = NoOutputType
    /\ require_output_type = FALSE
    /\ pc = "module"
    /\ payload = EmptyDict
    /\ result = EmptyDict
    /\ needs_more_processing = TRUE
    /\ current_iteration = 0
    /\ tool_results = <<>>
    /\ delegation_results = <<>>
    /\ idx = 0
    /\ response = EmptyDict
    /\ outcome = Unset
    /\ call_input = [tools |-> <<>>]
    /\ call_output = Unset
    /\ requests = 0
    /\ status = "none"
    /\ executed = <<>>

\* the agent's list follows the registry: every listed name gets the
\* definition registered under it now
Decorate_ListFollowsRegistry ==
    /\ pc \in {"module", "constructed"}
    /\ Cardinality({i \in DOMAIN executed : executed[i].kind = "decorated"})
          < MaxRegistrations
    /\ \E func \in Functions, name \in {"", "cotacao"} :
          /\ _REGISTERED_TOOLS' = tool(_REGISTERED_TOOLS, func, name)
          /\ tools' = [i \in DOMAIN tools |->
                          tool(_REGISTERED_TOOLS, func, name)[tools[i].name]]
          /\ executed' = Append(executed,
                [kind |-> "decorated", id |-> func.function,
                 name |-> IF name # "" THEN name ELSE func.__name__])
    /\ UNCHANGED <<suspended,
                   supervised_agents, output_type, require_output_type,
                   pc, payload, result, needs_more_processing,
                   current_iteration, tool_results, delegation_results, idx,
                   response, outcome, call_input, call_output, requests, status>>

\* @tool or @tool(name="cotacao") on a function, before or after the agent
\* is made
Decorate ==
    /\ pc \in {"module", "constructed"}
    /\ Cardinality({i \in DOMAIN executed : executed[i].kind = "decorated"})
          < MaxRegistrations
    /\ \E func \in Functions, name \in {"", "cotacao"} :
          /\ _REGISTERED_TOOLS' = tool(_REGISTERED_TOOLS, func, name)
          /\ executed' = Append(executed,
                [kind |-> "decorated", id |-> func.function,
                 name |-> IF name # "" THEN name ELSE func.__name__])
    /\ UNCHANGED <<suspended,
                   tools, supervised_agents, output_type, require_output_type,
                   pc, payload, result, needs_more_processing,
                   current_iteration, tool_results, delegation_results, idx,
                   response, outcome, call_input, call_output, requests, status>>

\* Analyst(..., tools=callables) or Supervisor(..., tools=callables)
NewAgent ==
    /\ pc = "module"
    /\ \E callables \in {<<>>} \cup {<<f>> : f \in Functions}
                        \cup {<<f, g>> : f \in Functions, g \in Functions} :
       \E processed \in {ProcessTools(_REGISTERED_TOOLS, <<>>, <<>>, callables)} :
          /\ call_input' = [tools |-> callables]
          /\ tools' = processed.tools
          /\ _REGISTERED_TOOLS' = processed.registry
          /\ executed' = executed \o processed.registrations
    /\ pc' = "constructed"
    /\ UNCHANGED <<suspended,
                   supervised_agents, output_type, require_output_type,
                   payload, result, needs_more_processing, current_iteration,
                   tool_results, delegation_results, idx, response, outcome,
                   call_output, requests, status>>

NextRegistry == Decorate \/ NewAgent

SpecRegistry == InitRegistry /\ [][NextRegistry]_vars

-----------------------------------------------------------------------------
(* Two invocations of run on one Supervisor.  The locals of a coroutine     *)
(* belong to its frame; control passes from one invocation to the other    *)
(* only where one awaits (agent.run) or has not started or has ended.       *)

\* the two lists are fields of the Supervisor, not locals of the invocation
Switch_SharedResults ==
    /\ pc \in {"start", "agent_run", "done", "raised"}
    /\ suspended' = [invocation |-> 3 - suspended.invocation,
                     pc |-> pc, payload |-> payload, result |-> result,
                     needs_more_processing |-> needs_more_processing,
                     current_iteration |-> current_iteration,
                     tool_results |-> tool_results,
                     delegation_results |-> delegation_results, idx |-> idx,
                     response |-> response, outcome |-> outcome,
                     requests |-> requests, status |-> status,
                     executed |-> executed]
    /\ pc' = suspended.pc
    /\ payload' = suspended.payload
    /\ result' = suspended.result
    /\ needs_more_processing' = suspended.needs_more_processing
    /\ current_iteration' = suspended.current_iteration
    /\ idx' = suspended.idx
    /\ response' = suspended.response
    /\ outcome' = suspended.outcome
    /\ requests' = suspended.requests
    /\ status' = suspended.status
    /\ executed' = suspended.executed
    /\ UNCHANGED <<tool_results, delegation_results>>
    /\ UNCHANGED <<tools, supervised_agents, output_type, require_output_type,
                   call_input, call_output, _REGISTERED_TOOLS>>

\* the event loop resumes the other invocation: its frame becomes the one
\* in hand, and the frame in hand is kept as it is
Switch ==
    /\ pc \in {"start", "agent_run", "done", "raised"}
    /\ suspended' = [invocation |-> 3 - suspended.invocation,
                     pc |-> pc, payload |-> payload, result |-> result,
                     needs_more_processing |-> needs_more_processing,
                     current_iteration |-> current_iteration,
                     tool_results |-> tool_results,
                     delegation_results |-> delegation_results, idx |-> idx,
                     response |-> response, outcome |-> outcome,
                     requests |-> requests, status |-> status,
                     executed |-> executed]
    /\ pc' = suspended.pc
    /\ payload' = suspended.payload
    /\ result' = suspended.result
    /\ needs_more_processing' = suspended.needs_more_processing
    /\ current_iteration' = suspended.current_iteration
    /\ tool_results' = suspended.tool_results
    /\ delegation_results' = suspended.delegation_results
    /\ idx' = suspended.idx
    /\ response' = suspended.response
    /\ outcome' = suspended.outcome
    /\ requests' = suspended.requests
    /\ status' = suspended.status
    /\ executed' = suspended.executed
    /\ UNCHANGED <<tools, supervised_agents, output_type, require_output_type,
                   call_input, call_output, _REGISTERED_TOOLS>>

\* invocation 1 is in hand and invocation 2 has not started
InitTwoRuns ==
    /\ tools = <<buscar_cotacao, dados_economicos>>
    /\ supervised_agents = <<redatorSimples, analystData>>
    /\ output_type = NoOutputType
    /\ require_output_type = FALSE
    /\ pc = "start"
    /\ payload = EmptyDict
    /\ result = EmptyDict
    /\ needs_more_processing = TRUE
    /\ current_iteration = 0
    /\ tool_results = <<>>
    /\ delegation_results = <<>>
    /\ idx = 0
    /\ response = EmptyDict
    /\ outcome = Unset
    /\ call_input = EmptyDict
    /\ call_output = Unset
    /\ requests = 0
    /\ status = "none"
    /\ _REGISTERED_TOOLS = RegisteredByTeste
    /\ executed = <<>>
    /\ suspended = [invocation |-> 2,
                    pc |-> "start", payload |-> EmptyDict, result |-> EmptyDict,
                    needs_more_processing |-> TRUE, current_iteration |-> 0,
                    tool_results |-> <<>>, delegation_results |-> <<>>,
                    idx |-> 0, response |-> EmptyDict, outcome |-> Unset,
                    requests |-> 0, status |-> "none", executed |-> <<>>]

\* the backend answers invocation 1 with call_1 or del_2, and invocation 2
\* with del_3
NextTwoRuns ==
    \/ /\ suspended.invocation = 2
       /\ Run(ResponsesOf({Str("sem dados")}, {<<ToolCalls[1]>>}, {})
              \cup ResponsesOf({Str("sem dados")}, {}, {<<Delegations[2]>>}))
    \/ /\ suspended.invocation = 1
       /\ Run(ResponsesOf({Str("sem dados")}, {}, {<<Delegations[3]>>}))
    \/ Switch

SpecTwoRuns == InitTwoRuns /\ [][NextTwoRuns]_vars

-----------------------------------------------------------------------------
(* Analyst.run and Analyst._call_orion_api (analystsdk.py 151-274).  The    *)
(* method is not a coroutine: the for loop over the tool calls of the       *)
(* first response runs from its first pass to its last, or to the request   *)
(* that raises, with nothing in between, and is one step.  An executed      *)
(* entry keeps the request of its pass (tool_response_payload) and the      *)
(* answer to it.                                                            *)

\* every request carries the results of all the calls executed so far
AnalystToolCalls_Accumulating(Rs) ==
    /\ pc = "for"
    /\ LET calls == ListOf(result, "tool_calls")
           tool_result(k) == _execute_tool_call(tools, calls[k]).value
       IN  \E answers \in [1..Len(calls) -> Rs] :
              /\ executed' =
                    [k \in 1..Len(calls) |->
                        [kind |-> "tool_call", id |-> calls[k].id,
                         invoked |-> ToolExecution(tools, calls[k]).invoked,
                         request |-> Put(payload, "tool_results",
                                         [j \in 1..k |->
                                             [tool_call_id |-> calls[j].id,
                                              result |-> tool_result(j)]]),
                         answer |-> answers[k]]]
              /\ requests' = requests + Len(calls)
              /\ result' = IF calls = <<>> THEN result ELSE answers[Len(calls)]
              /\ response' = IF calls = <<>> THEN result ELSE answers[Len(calls)]
              /\ status' = "ok"
              /\ pc' = "returned"
              /\ UNCHANGED outcome
    /\ UNCHANGED <<config, payload, needs_more_processing, current_iteration,
                   tool_results, delegation_results, idx>>

\* the state after Analyst(..., tools, output_type, require_output_type)
InitAnalyst ==
    /\ tools \in ToolLists
    /\ supervised_agents = <<>>
    /\ \E c \in OutputConfigs : output_type = c[1] /\ require_output_type = c[2]
    /\ pc = "start"
    /\ payload = EmptyDict
    /\ result = EmptyDict
    /\ needs_more_processing = FALSE
    /\ current_iteration = 0
    /\ tool_results = <<>>
    /\ delegation_results = <<>>
    /\ idx = 0
    /\ response = EmptyDict
    /\ outcome = Unset
    /\ call_input = [tools |-> <<>>]
    /\ call_output = Unset
    /\ requests = 0
    /\ status = "none"
    /\ _REGISTERED_TOOLS = RegisteredByTeste
    /\ suspended = Unset
    /\ executed = <<>>

\* lines 232-250: the payload and the first round-trip, which may raise
AnalystRequest(Rs) ==
    /\ pc = "start"
    /\ LET base == [prompt |-> Str("# Instruções"), max_tokens |-> 1500,
                    agent_type |-> Str("analyst"),
                    tools |-> [i \in 1..Len(tools) |-> tools[i].name]]
       IN  payload' =
              IF output_type # NoOutputType /\ Len(output_type.fields) > 0
              THEN Put(base, "output_schema",
                       [f \in FieldNames(output_type) |-> FieldType(output_type, f)])
              ELSE base
    /\ requests' = requests + 1
    /\ \/ /\ status' = "ok"
          /\ \E r \in Rs : result' = r
          /\ pc' = "for"
          /\ UNCHANGED outcome
       \/ /\ status' = "error"
          /\ Raise("HTTPError")
          /\ UNCHANGED result
    /\ UNCHANGED <<config, needs_more_processing, current_iteration,
                   tool_results, delegation_results, idx, response, executed>>

\* lines 252-274 and 209: the for loop over the tool calls of the first
\* response, one request per call, and the return of the last answer; or
\* the loop up to the request that raises (failing; 0: none does)
AnalystToolCalls(Rs) ==
    /\ pc = "for"
    /\ LET calls == ListOf(result, "tool_calls")
           tool_result(k) == _execute_tool_call(tools, calls[k]).value
       IN  \E failing \in 0..Len(calls) :
           \E n \in {IF failing = 0 THEN Len(calls) ELSE failing} :
           \E answers \in [1..(IF failing = 0 THEN n ELSE n - 1) -> Rs] :
              /\ executed' =
                    [k \in 1..n |->
                        [kind |-> "tool_call", id |-> calls[k].id,
                         invoked |-> ToolExecution(tools, calls[k]).invoked,
                         request |-> Put(payload, "tool_results",
                                         <<[tool_call_id |-> calls[k].id,
                                            result |-> tool_result(k)]>>),
                         answer |-> IF k \in DOMAIN answers THEN answers[k]
                                    ELSE Unset]]
              /\ requests' = requests + n
              /\ IF failing = 0 THEN
                    /\ result' = IF n = 0 THEN result ELSE answers[n]
                    /\ response' = IF n = 0 THEN result ELSE answers[n]
                    /\ status' = "ok"
                    /\ pc' = "returned"
                    /\ UNCHANGED outcome
                 ELSE
                    /\ result' = tool_result(n)
                    /\ status' = "error"
                    /\ Raise("HTTPError")
                    /\ UNCHANGED response
    /\ UNCHANGED <<config, payload, needs_more_processing, current_iteration,
                   tool_results, delegation_results, idx>>

\* the backend answers with a text or a structured text, and lists up to
\* MaxCalls tool calls or none
NextAnalyst ==
    \/ AnalystRequest(ResponsesOf({Str("sem dados"), Str(JsonText)},
                                  Prefixes(ToolCalls, MaxCalls), {}))
    \/ AnalystToolCalls(ResponsesOf({Str("sem dados"), Str(JsonText)},
                                    Prefixes(ToolCalls, MaxCalls), {}))
    \/ Finish

SpecAnalyst == InitAnalyst /\ [][NextAnalyst]_vars

-----------------------------------------------------------------------------
(* Properties.                                                             *)

\* the ids of a list of tool calls, delegations or executed items
Ids(list) == [i \in 1..Len(list) |-> list[i].id]
ExecutedIds(kind) == Ids(SelectSeq(executed, LAMBDA e : e.kind = kind))

\* result holds a response of the backend
Received == result # EmptyDict
ListsNeither(r) == ~("tool_calls" \in DOMAIN r) /\ ~("agent_delegations" \in DOMAIN r)
ListsBoth(r) == "tool_calls" \in DOMAIN r /\ "agent_delegations" \in DOMAIN r

\* a step that sends a request
Sends == requests' = requests + 1

\* C1 as stated: one run never sends more than 10 requests to the backend.
C1_AtMostTenRequests == requests <= 10

\* C1, amended: one run performs at most 10 loop iterations and sends at
\* most 21 requests, the first one and at most two per iteration.
C1_AtMostTwentyOneRequests ==
    /\ current_iteration <= 10
    /\ requests <= 21
    /\ requests <= 1 + 2 * current_iteration

C1_Witness == pc = "done" /\ requests = 21 /\ current_iteration = 10

\* C2: the request that follows a response listing both tool calls and
\* delegations is sent after all of them were executed and carries the
\* tool_results and the delegation_results of that response.
C2_BothResultsInNextRequest ==
    [][(Sends /\ Received /\ ListsBoth(result)) =>
          /\ ExecutedIds("tool_call") = Ids(result.tool_calls)
          /\ ExecutedIds("delegation") = Ids(result.agent_delegations)
          /\ "tool_results" \in DOMAIN payload'
          /\ "delegation_results" \in DOMAIN payload'
          /\ [i \in 1..Len(payload'.tool_results) |->
                 payload'.tool_results[i].tool_call_id] = Ids(result.tool_calls)
          /\ [i \in 1..Len(payload'.delegation_results) |->
                 payload'.delegation_results[i].delegation_id]
             = Ids(result.agent_delegations)]_vars

\* the response lists no tool call and no delegation: each list is absent or
\* empty
ListsNoItems(r) ==
    Get(r, "tool_calls", <<>>) = <<>> /\ Get(r, "agent_delegations", <<>>) = <<>>

C4_ReturnsTenthResponse ==
    pc \in {"returned", "done"} => requests = 10 /\ response = result

\* C4, amended: against such a backend the loop stops at the cap after 10
\* iterations of two requests each and returns the 21st response, unchanged.
C4_ReturnsTwentyFirstResponse ==
    /\ pc # "raised"
    /\ pc \in {"returned", "done"} =>
          /\ current_iteration = 10
          /\ requests = 21
          /\ response = result
          /\ ListsBoth(response)

C4_Witness == pc = "done" /\ requests = 21 /\ outcome.raw_response = result

\* C5: a loop stopped by the cap (the flag still set after 10 iterations)
\* does not raise; it returns the last response as received, and what that
\* response lists is never executed.
StoppedByCap == needs_more_processing /\ current_iteration >= 10

C5_CapReturnsLastResponse ==
    /\ [](pc \in {"returned", "done"} /\ needs_more_processing =>
            /\ current_iteration = 10
            /\ response = result
            /\ executed = <<>>)
    /\ [][(pc \in {"while", "returned", "done"} /\ StoppedByCap) =>
            /\ pc' \in {"returned", "done"}
            /\ result' = result
            /\ requests' = requests
            /\ executed' = <<>>]_vars

C5_Witness ==
    /\ pc = "done"
    /\ needs_more_processing
    /\ ListsBoth(result)
    /\ Len(result.tool_calls) > 0
    /\ Len(result.agent_delegations) > 0
    /\ outcome.raw_response = result

\* a structured error value: a dict whose single key is "error"
IsErrorValue(v) == v.type = "dict" /\ DOMAIN v.value = {"error"}

\* the tool call fails: no such tool, or the body of the try block raises
ToolCallFails(tool_list, c) ==
    LET i == FindTool(tool_list, Get(c, "name", None))
    IN  \/ i = 0
        \/ TryToolCall(tool_list[i],
                       Get(c, "arguments", Dict(EmptyDict))).outcome.kind = "raise"

\* list' is list with one entry appended, which pairs key with id
Appends(list, list2, key, id) ==
    /\ Len(list2) = Len(list) + 1
    /\ SubSeq(list2, 1, Len(list)) = list
    /\ list2[Len(list2)][key] = id

\* C6: no failing tool call and no failing delegation aborts the loop: the
\* item gets a result (an error value for a failing tool call), the for loop
\* goes on to the next item, the finished list is sent to the backend, and
\* a run only ever raises for a failed request; _execute_tool_call on its
\* own returns for every tool call.
C6_FailuresAreData ==
    /\ [](pc = "raised" => outcome.message = "HTTPError")
    /\ [](pc = "executed" =>
            /\ call_output.outcome.kind = "return"
            /\ ToolCallFails(tools, call_input) =>
                   IsErrorValue(call_output.outcome.value))
    /\ [][(pc = "tool_calls" /\ idx <= Len(result.tool_calls)) =>
            /\ pc' = "tool_calls"
            /\ idx' = idx + 1
            /\ Appends(tool_results, tool_results', "tool_call_id",
                       result.tool_calls[idx].id)
            /\ ToolCallFails(tools, result.tool_calls[idx]) =>
                   IsErrorValue(tool_results'[idx].result)]_vars
    /\ [][(pc = "agent_delegations" /\ idx <= Len(result.agent_delegations)) =>
            \/ pc' = "agent_run" /\ idx' = idx
            \/ /\ pc' = "agent_delegations"
               /\ idx' = idx + 1
               /\ Appends(delegation_results, delegation_results', "delegation_id",
                          result.agent_delegations[idx].id)]_vars
    /\ [][pc = "agent_run" =>
            /\ pc' = "agent_delegations"
            /\ idx' = idx + 1
            /\ Appends(delegation_results, delegation_results', "delegation_id",
                       result.agent_delegations[idx].id)]_vars
    /\ [][(pc = "tool_calls" /\ idx > Len(result.tool_calls)) =>
            Sends /\ payload'.tool_results = tool_results]_vars
    /\ [][(pc = "agent_delegations" /\ idx > Len(result.agent_delegations)) =>
            Sends /\ payload'.delegation_results = delegation_results]_vars

C6_Witness ==
    /\ pc = "while"
    /\ "tool_results" \in DOMAIN payload
    /\ Len(payload.tool_results) = 2
    /\ IsErrorValue(payload.tool_results[1].result)
    /\ payload.tool_results[2].result = Str("{\"atual\": 45.7}")
    /\ "delegation_results" \in DOMAIN payload
    /\ Len(payload.delegation_results) = 2
    /\ payload.delegation_results[1].result
          = Str("Erro: Agente com ID 999 não encontrado")
    /\ payload.delegation_results[2].result
          = Str("Erro ao executar o agente Analista de Dados: 500 Server Error")

\* the name of call_input is the name of no tool of the agent
NameMatchesNoTool ==
    \A i \in 1..Len(tools) :
        ~("name" \in DOMAIN call_input /\ call_input.name = Str(tools[i].name))

\* C7: a tool call whose name matches no tool of the agent returns an error
\* value, whatever its arguments, and invokes no callable.
C7_UnknownToolIsAnErrorValue ==
    (pc = "executed" /\ NameMatchesNoTool) =>
        /\ call_output.outcome.kind = "return"
        /\ IsErrorValue(call_output.outcome.value)
        /\ call_output.invoked = <<>>

C7_Witness ==
    /\ pc = "executed"
    /\ NameMatchesNoTool
    /\ "arguments" \in DOMAIN call_input
    /\ call_input.arguments = None
    /\ call_output.outcome.value
          = Dict([error |-> Str("Ferramenta 'inexistente' não encontrada")])

\* the callable was invoked and raised
CallableRaised ==
    /\ pc = "executed"
    /\ call_output.invoked # <<>>
    /\ CallFunction(call_output.invoked[1].function,
                    call_output.invoked[1].arguments).kind = "raise"

RaisedMessage ==
    CallFunction(call_output.invoked[1].function,
                 call_output.invoked[1].arguments).message

\* C8 as stated: when the callable raises with message M the result is
\* {"error": "<tool name>: M"}.
C8_ErrorIsNameColonMessage ==
    CallableRaised =>
        call_output.outcome
            = Return(Dict([error |-> Str(call_input.name.value \o ": "
                                          \o RaisedMessage)]))

\* C8, amended: when the callable raises with message M the method returns
\* {"error": "Erro ao executar ferramenta '<tool name>': M"} and does not raise.
C8_ErrorNamesToolAndMessage ==
    CallableRaised =>
        call_output.outcome
            = Return(Dict([error |-> Str("Erro ao executar ferramenta '"
                                          \o call_input.name.value \o "': "
                                          \o RaisedMessage)]))

C8_Witness ==
    /\ CallableRaised
    /\ call_output.outcome.value
          = Dict([error |-> Str("Erro ao executar ferramenta 'buscar_cotacao': ticker desconhecido")])

\* the delegation names no supervised agent
UnknownAgent(delegation) ==
    \A i \in 1..Len(supervised_agents) :
        ~("agent_id" \in DOMAIN delegation
          /\ delegation.agent_id = PyInt(supervised_agents[i].id))

ExtractionFails(r) ==
    _parse_output_to_model(Get(r, "content", Str("")), output_type).kind = "raise"

\* the raw, unstructured result of a response
RawResult(r) ==
    [kind |-> "AgentResult", content |-> Get(r, "content", Str("")),
     raw_response |-> r]

\* C10: with an output_type, when the extraction over the text of the
\* returned response fails, run raises if require_output_type is set and
\* otherwise returns the raw result with the text of that response; a run
\* with require_output_type never ends with a raw result.
C10_ExtractionFailure ==
    /\ [](pc = "done" /\ require_output_type => outcome.kind = "BaseModel")
    /\ [][(pc = "returned" /\ output_type # NoOutputType /\ ExtractionFails(response)) =>
            IF require_output_type
            THEN /\ pc' = "raised"
                 /\ outcome'.kind = "raise"
                 /\ Contains(outcome'.message,
                             "Não foi possível converter o resultado para AnaliseMercado")
            ELSE /\ pc' = "done"
                 /\ outcome' = RawResult(response)]_vars

C10_Witness ==
    /\ pc = "raised"
    /\ require_output_type
    /\ response # EmptyDict
    /\ response.content = Str("sem dados")
    /\ requests = 3
    /\ outcome.message = "Não foi possível converter o resultado para AnaliseMercado: Não foi possível extrair dados estruturados: validation error for AnaliseMercado: tendencia: field required"

C12_FailedRequestEndsTheRun ==
    /\ [][status' = "error" =>
            /\ requests' = requests + 1
            /\ pc' = "raised"
            /\ outcome'.kind = "raise"
            /\ response' = EmptyDict
            /\ executed' = executed]_vars
    /\ [][status # "error"]_vars
    /\ [](status = "error" => pc = "raised" /\ outcome.kind = "raise")

C12_Witness ==
    /\ status = "error"
    /\ pc = "raised"
    /\ requests >= 2
    /\ Has(payload, "tool_results")

\* the entries a tool_results list must have for the calls of response r:
\* one per call, in the listed order, the call's id with the call's result
PairedToolResults(r) ==
    [i \in 1..Len(r.tool_calls) |->
        [tool_call_id |-> r.tool_calls[i].id,
         result |-> _execute_tool_call(tools, r.tool_calls[i]).value]]

\* C13: the request that follows a response listing tool calls is sent
\* after these calls were executed one after another in the listed order,
\* and its tool_results has exactly one entry per listed call, in that
\* order, each pairing the call's id with the call's result.
C13_ToolResultsPairTheListedCalls ==
    [][(Sends /\ Received /\ Has(result, "tool_calls")) =>
          /\ ExecutedIds("tool_call") = Ids(result.tool_calls)
          /\ Has(payload', "tool_results")
          /\ payload'.tool_results = PairedToolResults(result)]_vars

\* the delegations of result before the one at position i
Before(i) == SubSeq(result.agent_delegations, 1, i - 1)

Extracted == pc = "extracted"
Extraction == call_output[Len(call_output)]
Tried == [i \in 1..Len(executed) |-> executed[i].id]

\* the model's one-step definition agrees with the steps
ExtractionStepsAgree ==
    Extracted => Extraction.outcome =
        _parse_output_to_model(call_input.output, call_input.model_type)

\* the three try blocks on the arguments of the call in hand, each alone
DirectParse ==
    Attempt(call_input.model_type, json_loads(call_input.output))
EmbeddedParse ==
    Attempt(call_input.model_type, EmbeddedBlockParse(call_input.output))
ScanParse ==
    Attempt(call_input.model_type,
            KeyValueScan(call_input.output, call_input.model_type))

Succeeds(attempt) == attempt.kind = "return"

\* data is a json object whose values have the types the fields declare
OfFieldType(type, v) ==
    CASE type = "str" -> v.type = "str"
      [] type = "float" -> v.type = "float"
      [] type = "List[str]" ->
            v.type = "list" /\ \A i \in DOMAIN v.value : v.value[i].type = "str"
MatchesSchema(model_type, data) ==
    /\ Succeeds(data)
    /\ data.value.type = "dict"
    /\ \A i \in DOMAIN model_type.fields :
          /\ Has(data.value.value, model_type.fields[i].name)
          /\ OfFieldType(model_type.fields[i].type,
                         data.value.value[model_type.fields[i].name])

\* C15: the strategies are tried in the order direct parse, embedded block,
\* key-value scan, each only after the ones before it failed, and the call
\* returns the instance of the first that succeeds; json text that matches
\* the schema gives the instance of the direct parse, every field as given,
\* and no other strategy is tried.
C15_FirstSuccessInOrder ==
    /\ \A i \in DOMAIN executed : executed[i].id = i
    /\ Len(executed) >= 2 => ~Succeeds(DirectParse)
    /\ Len(executed) >= 3 => ~Succeeds(EmbeddedParse)
    /\ Extracted =>
          /\ Extraction.strategy = Len(executed)
          /\ Succeeds(DirectParse) =>
                Extraction = [strategy |-> 1, outcome |-> DirectParse]
          /\ ~Succeeds(DirectParse) /\ Succeeds(EmbeddedParse) =>
                Extraction = [strategy |-> 2, outcome |-> EmbeddedParse]
          /\ ~Succeeds(DirectParse) /\ ~Succeeds(EmbeddedParse)
                /\ Succeeds(ScanParse) =>
                Extraction = [strategy |-> 3, outcome |-> ScanParse]
          /\ MatchesSchema(call_input.model_type, json_loads(call_input.output)) =>
                /\ Tried = <<1>>
                /\ Succeeds(Extraction.outcome)
                /\ \A f \in FieldNames(call_input.model_type) :
                      Extraction.outcome.value.dict.value[f] =
                          json_loads(call_input.output).value.value[f]

\* the scan returned an instance after the two parses had failed
C15_Witness ==
    /\ Extracted
    /\ Tried = <<1, 2, 3>>
    /\ Succeeds(Extraction.outcome)
    /\ ~Succeeds(DirectParse) /\ ~Succeeds(EmbeddedParse)

\* json text matching the schema was extracted by the direct parse
C15_WitnessDirect ==
    /\ Extracted
    /\ MatchesSchema(call_input.model_type, json_loads(call_input.output))
    /\ Tried = <<1>>

\* the texts of the call in hand as prose around one of the json objects
ProseAround(before, object, after) ==
    /\ call_input.output = Str(before \o object \o after)
    /\ before \o after # ""

\* the instance of the object alone
ObjectAlone(object) == Attempt(call_input.model_type, json_loads(Str(object)))

NoBraces(text) == ~Contains(text, "{") /\ ~Contains(text, "}")

NoValidJson ==
    /\ call_input.output.type = "str"
    /\ ~Succeeds(json_loads(call_input.output))
    /\ ~Succeeds(EmbeddedBlockParse(call_input.output))

\* what the patterns capture for a field in the text of the call in hand
Captured(field_name) == FirstMatch(call_input.output.value, field_name)

PairForEveryField ==
    \A f \in FieldNames(call_input.model_type) : Captured(f).matched

\* C17 as stated: a text without json that pairs every field with a value
\* is extracted by the key-value scan, and a field of type str holds the
\* captured text as it stands.
C17_ScanOfEveryFieldSucceeds ==
    (Extracted /\ NoValidJson /\ PairForEveryField) =>
        /\ Extraction.strategy = 3
        /\ Succeeds(Extraction.outcome)
        /\ \A i \in DOMAIN call_input.model_type.fields :
              call_input.model_type.fields[i].type = "str" =>
                  Extraction.outcome.value.dict.value[
                      call_input.model_type.fields[i].name]
                  = Str(Captured(call_input.model_type.fields[i].name).text)

AllStrategiesFail ==
    ~Succeeds(DirectParse) /\ ~Succeeds(EmbeddedParse) /\ ~Succeeds(ScanParse)

\* C18 as stated: when the three strategies fail the call raises an error
\* that carries the text it was given and the error of the last strategy.
C18_ErrorCarriesTextAndLastError ==
    (Extracted /\ AllStrategiesFail /\ call_input.output.type = "str") =>
        /\ Extraction.outcome.kind = "raise"
        /\ Contains(Extraction.outcome.message, ScanParse.message)
        /\ Contains(Extraction.outcome.message, call_input.output.value)

\* C18: when the three strategies fail the call raises a ValueError whose
\* message is a fixed prefix followed by the message of the exception of the
\* key-value scan, the last strategy; nothing else is carried.
C18_ErrorCarriesLastError ==
    (Extracted /\ AllStrategiesFail) =>
        /\ Tried = <<1, 2, 3>>
        /\ Extraction.outcome =
              [kind |-> "raise",
               message |-> "Não foi possível extrair dados estruturados: "
                           \o ScanParse.message]

\* a text that is neither json nor pairs was refused
C18_Witness ==
    /\ Extracted
    /\ AllStrategiesFail
    /\ call_input.output = Str("sem dados Fim.")
    /\ Extraction.outcome.kind = "raise"

\* the data the n-th try block of the call in hand hands to the model
StrategyData(n) ==
    CASE n = 1 -> json_loads(call_input.output)
      [] n = 2 -> EmbeddedBlockParse(call_input.output)
      [] n = 3 -> KeyValueScan(call_input.output, call_input.model_type)

SomeFieldUnmatched ==
    /\ call_input.output.type = "str"
    /\ \E f \in FieldNames(call_input.model_type) : ~Captured(f).matched

\* C19: an instance that is returned has every field of the schema, each
\* validated from the value the strategy that succeeded supplied for it; a
\* field the key-value scan finds no match for is absent from its mapping,
\* and the call then raises instead of returning an instance.
C19_NoPartialInstance ==
    Extracted =>
        /\ Succeeds(Extraction.outcome) =>
              /\ DOMAIN Extraction.outcome.value.dict.value
                    = FieldNames(call_input.model_type)
              /\ \A f \in FieldNames(call_input.model_type) :
                    /\ Has(StrategyData(Extraction.strategy).value.value, f)
                    /\ Return(Extraction.outcome.value.dict.value[f]) =
                          ValidateField(
                              FieldType(call_input.model_type, f),
                              StrategyData(Extraction.strategy).value.value[f])
        /\ (Extraction.strategy = 3 /\ SomeFieldUnmatched) =>
              /\ \A f \in FieldNames(call_input.model_type) :
                    Captured(f).matched <=> Has(StrategyData(3).value.value, f)
              /\ Extraction.outcome.kind = "raise"

\* the scan was reached, matched some fields and not all, and the call raised
C19_Witness ==
    /\ Extracted
    /\ Tried = <<1, 2, 3>>
    /\ SomeFieldUnmatched
    /\ \E f \in FieldNames(call_input.model_type) : Captured(f).matched
    /\ Extraction.outcome.kind = "raise"

C21_ToolNamesUniqueInList ==
    \A i, j \in DOMAIN tools : tools[i].name = tools[j].name => i = j

\* the registrations in the order they happened, by decorator or constructor
Registrations == executed

\* the last registration under a name (0: none)
LastUnder(name) ==
    IF \E k \in DOMAIN Registrations : Registrations[k].name = name
    THEN CHOOSE k \in DOMAIN Registrations :
            /\ Registrations[k].name = name
            /\ \A later \in (k + 1)..Len(Registrations) :
                  Registrations[later].name # name
    ELSE 0

\* C25: the registry holds one entry for each name registered so far, that
\* of the most recent registration under the name, and a registration under
\* one name leaves the entries of the other names as they were.
C25_LastWriteWins ==
    /\ [](/\ DOMAIN _REGISTERED_TOOLS
                = {Registrations[k].name : k \in DOMAIN Registrations}
          /\ \A name \in DOMAIN _REGISTERED_TOOLS :
                /\ _REGISTERED_TOOLS[name].name = name
                /\ _REGISTERED_TOOLS[name].function
                      = Registrations[LastUnder(name)].id)
    /\ [][Len(Registrations') = Len(Registrations) + 1 =>
            \A name \in DOMAIN _REGISTERED_TOOLS :
                name # Registrations'[Len(Registrations')].name =>
                    /\ name \in DOMAIN _REGISTERED_TOOLS'
                    /\ _REGISTERED_TOOLS'[name] = _REGISTERED_TOOLS[name]]_vars

\* a name was registered twice, for two functions, and holds the second
C25_Witness ==
    \E k \in DOMAIN Registrations :
        /\ k < LastUnder(Registrations[k].name)
        /\ Registrations[k].id
              # Registrations[LastUnder(Registrations[k].name)].id
        /\ Cardinality(DOMAIN _REGISTERED_TOOLS) = 1

\* the names f has been registered under so far; its own name when the
\* constructor is the first to register it
Decorated(f) ==
    LET Under(names) == IF names = {} THEN {f.__name__} ELSE names
    IN  Under({Registrations[k].name :
                 k \in {r \in DOMAIN Registrations :
                           Registrations[r].id = f.function}})

\* C30 as stated: for every callable of the tools argument the tool list of
\* the new agent holds a definition whose callable is that very function,
\* under a name it was registered with.
C30_ListedToolIsTheCallable ==
    [][(pc = "module" /\ pc' = "constructed") =>
          \A i \in DOMAIN call_input'.tools :
              \E k \in DOMAIN tools' :
                  /\ tools'[k].function = call_input'.tools[i].function
                  /\ tools'[k].name \in Decorated(call_input'.tools[i])]_vars

\* a step that executes a delegation: the history gains its entry
ExecutesDelegation ==
    /\ Len(executed') = Len(executed) + 1
    /\ executed'[Len(executed')].kind = "delegation"

\* the supervised agents whose id() is the agent_id of a delegation
Targets(delegation) ==
    {i \in DOMAIN supervised_agents :
        PyInt(supervised_agents[i].id) = Get(delegation, "agent_id", None)}

\* C22: a step that executes a delegation either awaits the run of one
\* supervised agent, one whose id() is the agent_id, once, with the input
\* of the delegation, or awaits no run and gives the text that no agent has
\* that id; in both cases delegation_results gains one entry, with the id
\* of the delegation.
C22_DelegationRunsItsTargetOnce ==
    [][ExecutesDelegation =>
          /\ executed'[Len(executed')].id = result.agent_delegations[idx].id
          /\ Len(delegation_results') = Len(delegation_results) + 1
          /\ SubSeq(delegation_results', 1, Len(delegation_results))
                = delegation_results
          /\ delegation_results'[Len(delegation_results')].delegation_id
                = result.agent_delegations[idx].id
          /\ \/ /\ Targets(result.agent_delegations[idx]) # {}
                /\ Len(executed'[Len(executed')].invoked) = 1
                /\ \E i \in Targets(result.agent_delegations[idx]) :
                      executed'[Len(executed')].invoked[1] =
                          [agent |-> supervised_agents[i].id,
                           input |-> Get(result.agent_delegations[idx],
                                         "input", Str(""))]
             \/ /\ Targets(result.agent_delegations[idx]) = {}
                /\ executed'[Len(executed')].invoked = <<>>
                /\ delegation_results'[Len(delegation_results')].result =
                      Str("Erro: Agente com ID "
                          \o Get(result.agent_delegations[idx],
                                 "agent_id", None).value
                          \o " não encontrado")]_vars

\* of the delegations of one response one ran its agent and one found none
C22_Witness ==
    \E i, j \in DOMAIN executed :
        /\ executed[i].kind = "delegation" /\ executed[i].invoked = <<>>
        /\ executed[j].kind = "delegation" /\ executed[j].invoked # <<>>

\* the entries a step that ended a delegated run has added
Ended == executed'[Len(executed')]
Recorded == delegation_results'[Len(delegation_results')]

\* C23: the result recorded for a delegation whose run ended is the content
\* of the AgentResult the run returned, unchanged; the json text of the
\* instance it returned; or, when it raised, the text "Erro ao executar o
\* agente <name>: <message>" with the name of the agent that ran.
C23_ResultByKindOfOutcome ==
    [][(pc = "agent_run" /\ ExecutesDelegation) =>
          /\ Recorded.delegation_id = Ended.id
          /\ Ended.returned.kind = "AgentResult" =>
                Recorded.result = Ended.returned.content
          /\ Ended.returned.kind = "BaseModel" =>
                Recorded.result = Str("{\"tendencia\": \"alta\"}")
          /\ Ended.returned.kind = "raise" =>
                \E i \in Targets(result.agent_delegations[idx]) :
                    /\ supervised_agents[i].id = Ended.invoked[1].agent
                    /\ Recorded.result =
                          Str("Erro ao executar o agente "
                              \o supervised_agents[i].name \o ": "
                              \o Ended.returned.message)]_vars

\* runs of the same response returned an instance, returned text and raised
C23_Witness ==
    \E i, j \in DOMAIN executed :
        /\ executed[i].kind = "delegation" /\ executed[i].invoked # <<>>
        /\ executed[j].kind = "delegation" /\ executed[j].invoked # <<>>
        /\ executed[i].returned.kind = "BaseModel"
        /\ executed[j].returned.kind = "raise"

\* the tool of the agent that the call in hand names (0: none)
Named == FindTool(tools, Get(call_input, "name", None))

\* the arguments give every declared parameter a value a str field takes
Complete(tool_info, arguments) ==
    /\ arguments.type = "dict"
    /\ \A p \in DOMAIN tool_info.parameters :
          /\ p \in DOMAIN arguments.value
          /\ arguments.value[p].type \in {"str", "float"}

\* C24: when a declared parameter of the tool, one with a default in the
\* function included, is absent from the arguments or malformed, no
\* callable is invoked and an error value is returned; a callable that is
\* invoked is the tool's, once, with a validated value for every declared
\* parameter and nothing else.
C24_ValidatedBeforeInvoked ==
    (pc = "executed" /\ Named # 0) =>
        /\ ~Complete(tools[Named], Get(call_input, "arguments", Dict(EmptyDict))) =>
              /\ call_output.invoked = <<>>
              /\ call_output.outcome.kind = "return"
              /\ IsErrorValue(call_output.outcome.value)
        /\ Complete(tools[Named], Get(call_input, "arguments", Dict(EmptyDict))) =>
              /\ Len(call_output.invoked) = 1
              /\ call_output.invoked[1].function = tools[Named].function
              /\ DOMAIN call_output.invoked[1].arguments
                    = DOMAIN tools[Named].parameters
              /\ \A p \in DOMAIN tools[Named].parameters :
                    call_output.invoked[1].arguments[p]
                        = Str(call_input.arguments.value[p].value)

\* the call gave no value for the parameter that has a default
C24_Witness ==
    /\ pc = "executed"
    /\ Named # 0
    /\ DOMAIN tools[Named].parameters = {"ticker", "bolsa"}
    /\ "arguments" \in DOMAIN call_input
    /\ call_input.arguments = Dict([ticker |-> Str("PETR4")])
    /\ call_output.invoked = <<>>
    /\ IsErrorValue(call_output.outcome.value)

\* the invocation in hand, and the ids the backend lists in its answers
InHand == 3 - suspended.invocation
OwnCalls == IF InHand = 1 THEN {"call_1"} ELSE {}
OwnDelegations == IF InHand = 1 THEN {"del_2"} ELSE {"del_3"}

\* the locals of the invocation in hand, as Switch keeps them
Locals ==
    [pc |-> pc, payload |-> payload, result |-> result,
     needs_more_processing |-> needs_more_processing,
     current_iteration |-> current_iteration, tool_results |-> tool_results,
     delegation_results |-> delegation_results, idx |-> idx,
     response |-> response, outcome |-> outcome, requests |-> requests,
     status |-> status, executed |-> executed]

\* C26: of two invocations of run on one Supervisor, interleaved where one
\* awaits, every request carries tool_results and delegation_results only
\* for items the backend listed for that invocation; the iteration count of
\* an invocation is zero when its loop is reached, moves by one and never
\* exceeds ten; and the state of the invocation that is not running stays
\* as that invocation left it.
C26_StateOwnedByOneRun ==
    /\ [][(Sends /\ suspended' = suspended) =>
            /\ Has(payload', "tool_results") =>
                  \A i \in DOMAIN payload'.tool_results :
                      payload'.tool_results[i].tool_call_id \in OwnCalls
            /\ Has(payload', "delegation_results") =>
                  \A i \in DOMAIN payload'.delegation_results :
                      payload'.delegation_results[i].delegation_id
                          \in OwnDelegations]_vars
    /\ [][(pc = "start" /\ pc' = "while") => current_iteration' = 0]_vars
    /\ [][suspended' = suspended =>
            current_iteration' \in {current_iteration, current_iteration + 1}
            \/ pc = "start"]_vars
    /\ [](current_iteration <= 10 /\ suspended.current_iteration <= 10)
    /\ [][suspended' # suspended =>
            /\ suspended' = [invocation |-> InHand] @@ Locals
            /\ Locals' = [f \in DOMAIN Locals |-> suspended[f]]]_vars

\* both invocations are awaiting a delegated run, each after a request that
\* carried results
C26_Witness ==
    /\ pc = "agent_run"
    /\ suspended.pc = "agent_run"
    /\ Has(payload, "delegation_results")
    /\ Has(suspended.payload, "delegation_results")
    /\ Has(payload, "tool_results") \/ Has(suspended.payload, "tool_results")

\* the run is over: run returned or raised
Terminated == pc \in {"done", "raised"}

\* C27: one run performs at most 10 loop iterations and sends at most 21
\* requests: the first one before the loop and, in an iteration, at most one
\* after the tool calls and then at most one after the delegations; and when
\* every request and every delegated run returns, the run ends.
C27_BoundedRunTerminates ==
    /\ [](current_iteration <= max_iterations
          /\ requests <= 1 + 2 * max_iterations)
    /\ [][Sends => \/ pc = "start" /\ requests = 0
                   \/ pc = "tool_calls" /\ requests < 2 * current_iteration
                   \/ pc = "agent_delegations"
                      /\ requests <= 2 * current_iteration]_vars
    /\ <>Terminated

\* a run that used all ten iterations and both requests of each has ended
C27_Witness ==
    /\ Terminated
    /\ needs_more_processing
    /\ current_iteration = max_iterations
    /\ requests = 1 + 2 * max_iterations

\* C28: in every request sent after a response, tool_results, when present,
\* has the entries of the tool calls of that response and no other, and
\* delegation_results, when present, those of its delegations and no other:
\* nothing produced for an earlier response is sent again.
C28_OnlyFreshResults ==
    [][(Sends /\ Received) =>
          /\ Has(payload', "tool_results") =>
                /\ [i \in 1..Len(payload'.tool_results) |->
                       payload'.tool_results[i].tool_call_id]
                      = Ids(ListOf(result, "tool_calls"))
                /\ ExecutedIds("tool_call") = Ids(ListOf(result, "tool_calls"))
          /\ Has(payload', "delegation_results") =>
                /\ [i \in 1..Len(payload'.delegation_results) |->
                       payload'.delegation_results[i].delegation_id]
                      = Ids(ListOf(result, "agent_delegations"))
                /\ ExecutedIds("delegation")
                      = Ids(ListOf(result, "agent_delegations"))]_vars

\* the callables invoked are functions of tools of the agent's own list
\* that have the name the call gives
OfOwnTool(invoked, tool_call) ==
    \A k \in DOMAIN invoked :
        \E i \in DOMAIN tools :
            /\ Str(tools[i].name) = Get(tool_call, "name", None)
            /\ tools[i].function = invoked[k].function

\* C29: executing a tool call invokes at most one callable, the function of
\* a tool of the agent's own list with the name the call gives; a name that
\* is only in the registry invokes nothing.  In a run, every tool call
\* executed since the last response is a listed call of that response, each
\* executed once, in the listed order.
C29_OnlyOwnToolsInvoked ==
    /\ pc = "executed" =>
          /\ Len(call_output.invoked) <= 1
          /\ OfOwnTool(call_output.invoked, call_input)
          /\ (\A i \in DOMAIN tools :
                 Str(tools[i].name) # Get(call_input, "name", None))
                => call_output.invoked = <<>>
    /\ pc = "tool_calls" =>
          /\ ExecutedIds("tool_call")
                = Ids(SubSeq(result.tool_calls, 1, idx - 1))
          /\ \A k \in DOMAIN executed :
                /\ Len(executed[k].invoked) <= 1
                /\ OfOwnTool(executed[k].invoked, result.tool_calls[k])

\* the call names a tool of the registry that the agent does not list
C29_Witness ==
    /\ pc = "executed"
    /\ Get(call_input, "name", None) = Str("buscar_cotacao")
    /\ "buscar_cotacao" \in DOMAIN _REGISTERED_TOOLS
    /\ tools = <<dados_economicos>>
    /\ call_output.invoked = <<>>

\* a call of a listed tool invoked its function
C29_WitnessInvoked ==
    /\ pc = "executed"
    /\ tools = <<dados_economicos>>
    /\ Len(call_output.invoked) = 1
    /\ call_output.invoked[1].function = dados_economicos.function

\* the fields of the request that describe the agent, and those that carry
\* results back
RequestFields ==
    {"prompt", "max_tokens", "agent_type", "tools", "supervised_agents",
     "output_schema"}
ResultFields == {"tool_results", "delegation_results"}

\* C33: the first request of a run has prompt, max_tokens, agent_type, tools
\* and supervised_agents, output_schema when the agent has an output type
\* with fields, and neither tool_results nor delegation_results; every later
\* request has the same fields with the same values as the request before
\* it, and differs from it only in tool_results and delegation_results; the
\* payload changes only when a request is sent.
C33_RequestFrame ==
    /\ [][(Sends /\ pc = "start") =>
            /\ DOMAIN payload' \subseteq RequestFields
            /\ RequestFields \ {"output_schema"} \subseteq DOMAIN payload'
            /\ "output_schema" \in DOMAIN payload'
                  <=> (output_type # NoOutputType /\ Len(output_type.fields) > 0)]_vars
    /\ [][(Sends /\ pc # "start") =>
            /\ DOMAIN payload' \subseteq RequestFields \cup ResultFields
            /\ DOMAIN payload' \cap RequestFields = DOMAIN payload \cap RequestFields
            /\ \A k \in DOMAIN payload \cap RequestFields : payload'[k] = payload[k]
            /\ DOMAIN payload' \cap ResultFields # {}]_vars
    /\ [][~Sends => payload' = payload]_vars

\* a third request went out for an agent with an output schema, carrying
\* both kinds of results
C33_Witness ==
    /\ requests >= 3
    /\ "output_schema" \in DOMAIN payload
    /\ ResultFields \subseteq DOMAIN payload

\* C31: once the agent is constructed, a registration, of a new name or of
\* a name the agent lists, leaves the agent's list as it was: the same
\* number of tools and, for each, the same callable, name and parameter
\* schema, whatever the registry now holds under that name.
C31_ToolListIsASnapshot ==
    [][pc = "constructed" =>
          /\ Len(tools') = Len(tools)
          /\ \A i \in DOMAIN tools :
                /\ tools'[i].function = tools[i].function
                /\ tools'[i].name = tools[i].name
                /\ tools'[i].parameters = tools[i].parameters]_vars

\* a name the agent lists was registered again after the construction, for
\* another function with another signature
C31_Witness ==
    /\ pc = "constructed"
    /\ \E i \in DOMAIN tools :
          /\ tools[i].name \in DOMAIN _REGISTERED_TOOLS
          /\ _REGISTERED_TOOLS[tools[i].name].function # tools[i].function
          /\ _REGISTERED_TOOLS[tools[i].name].parameters # tools[i].parameters

\* the tool calls the response in result lists
Listed == ListOf(result, "tool_calls")

\* C32: an Analyst whose first response lists n tool calls and whose
\* requests all succeed sends exactly 1 + n requests: the calls are executed
\* in the listed order, each at most one callable, and the request of a
\* call is the first payload with a tool_results of one entry, that call's
\* id and result; what the answers list is never executed; the last answer,
\* or the first response when n = 0, is what _call_orion_api returns and
\* what run builds its result from.
C32_OnePassOverTheFirstResponse ==
    /\ [][(pc = "for" /\ pc' = "returned") =>
            /\ requests = 1
            /\ requests' = 1 + Len(Listed)
            /\ Ids(executed') = Ids(Listed)
            /\ \A k \in DOMAIN executed' :
                  /\ Len(executed'[k].invoked) <= 1
                  /\ DOMAIN executed'[k].request = DOMAIN payload \cup {"tool_results"}
                  /\ \A f \in DOMAIN payload : executed'[k].request[f] = payload[f]
                  /\ executed'[k].request.tool_results
                        = <<[tool_call_id |-> Listed[k].id,
                             result |-> _execute_tool_call(tools, Listed[k]).value]>>
            /\ response' = IF Listed = <<>> THEN result
                           ELSE executed'[Len(Listed)].answer
            /\ result' = response']_vars
    /\ [][pc = "returned" =>
            /\ executed' = executed
            /\ requests' = requests
            /\ response' = response]_vars
    /\ [](pc = "done" /\ outcome.kind = "AgentResult"
            => outcome.raw_response = response)
    /\ [](pc \in {"returned", "done"} => ~("tool_results" \in DOMAIN payload))

\* two calls were executed, the answer to the first request of the loop
\* listed tool calls of its own, and the run returned after three requests
C32_Witness ==
    /\ pc = "done"
    /\ requests = 3
    /\ Len(executed) = 2
    /\ "request" \in DOMAIN executed[1]
    /\ Has(executed[1].answer, "tool_calls")
    /\ executed[1].answer.tool_calls # <<>>
    /\ Has(executed[2].answer, "tool_calls")
    /\ outcome.kind = "AgentResult"
    /\ outcome.raw_response = executed[2].answer

====
